---- MODULE Spec2Model ----
(***************************************************************************)
(* A model of five parts of the inventory application:                     *)
(*   - the PIN lock: PinLockGuard.tsx and PinLockScreen.tsx  (SpecPin)     *)
(*   - the rule-based intent parser: aiAssistant.ts          (SpecAI)      *)
(*   - the splash screen controller: SplashScreenController.tsx            *)
(*                                                           (SpecSplash)  *)
(*   - the electron main process: electron/main.js       (SpecElectron)    *)
(*   - the password dialog: SecurityPanel.tsx            (SpecSecurity)    *)
(* Each part has its own variables, initial predicate and next-state       *)
(* relation; a part's specification leaves the other parts' variables      *)
(* unchanged.                                                              *)
(***************************************************************************)
EXTENDS Integers, Sequences, FiniteSets, TLC

(***************************************************************************)
(* Bounds of the model.                                                    *)
(***************************************************************************)
\* checkPin queries of PinLockGuard that may be in flight at once
MaxQueries == 1
\* verifyPin calls of PinLockScreen that may be in flight at once
MaxVerifies == 1
\* Phrases a user input of the AI assistant is made of
MaxWords == 3

(***************************************************************************)
(* State                                                                   *)
(***************************************************************************)
\* PinLockGuard and PinLockScreen
VARIABLES
  isAuthenticated,  \* useAuth().isAuthenticated
  currentUser,      \* useAuth().currentUser?.id, NoUser when there is none
  remotePin,        \* users table: pin_hash of each user's row
  sessionUnlocked,  \* sessionStorage.getItem('pin_unlocked') === 'true'
  storedUser,       \* localStorage 'currentUser' (its id), NoUser when absent
  pinCache,         \* localStorage 'pin_hash_<userId>'
  isLocked,         \* PinLockGuard state
  checking,         \* PinLockGuard state
  effectPending,    \* the guard's effect is due (mount, or a dependency changed)
  pinQueries,       \* in-flight checkPin queries, counted per user
  pin,              \* PinLockScreen state: the digits entered
  error,            \* PinLockScreen state
  isShaking,        \* PinLockScreen state
  verifs,           \* in-flight verifyPin calls, one per slot
  unlockRan,        \* history: handleUnlock ran since the user was authenticated
  evt               \* history: what the last step did

\* AIAssistantService
VARIABLES
  userRole,     \* AIAssistantService.userRole
  assets,       \* AIAssistantService.assets
  sites,        \* AIAssistantService.sites
  employees,    \* AIAssistantService.employees
  vehicles,     \* AIAssistantService.vehicles
  aiWords,      \* the phrases of the user input being composed
  aiResponse,   \* what the last processInput call returned, NoResponse before
  aiArgs        \* history: the arguments of the constructor and of the last
                \* updateContext call, and whether processInput was called
                \* before the input being composed

\* SplashScreenController
VARIABLES
  variant,              \* which of the file's two SplashScreenController is mounted
  platform,             \* Capacitor.getPlatform()
  isAssetsLoading,      \* useAssets().isLoading
  isWaybillsLoading,    \* useWaybills().isLoading
  isAppDataLoading,     \* useAppData().isLoading
  isDashboardDataLoaded,\* useDashboardLoading().isAllDataLoaded
  hasHiddenRef,         \* hasHiddenRef.current
  showWebLoader,        \* useState(true) of the first controller
  splashEffectPending,  \* the controller's effect is due
  hideTimer,            \* the 300 ms wait before the hide: "none", "native", "web"
  splashHidden,         \* SplashScreen.hide() has resolved
  seen                  \* history: the flags the effect saw when it decided to hide

\* electron main process (electron/main.js)
VARIABLES
  processPlatform,    \* process.platform
  gotTheLock,         \* app.requestSingleInstanceLock()
  argvDeepLink,       \* process.argv.find(arg => arg.startsWith('dcel-inventory://'))
  appState,           \* "launching", "ready" (app.whenReady resolved) or "quit"
  mainWindow,         \* the variable and its window: "undefined", "hidden",
                      \* "visible", "minimized" or "destroyed"
  splashWindow,       \* "undefined", "open" or "destroyed"
  readyToShowPending, \* the once('ready-to-show') listener has not run yet
  readyPc,            \* statements of the ready-to-show handler already run
  loadListener,       \* the did-finish-load listener of line 131 is registered
  mainFocused,        \* the main window has the focus
  mainMaximized,      \* mainWindow.isMaximized()
  closePending,       \* mainWindow.close() was called and the window has not closed
  elEvt               \* history: what the last handler did

\* SecurityPanel
VARIABLES
  hasOnPasswordChange,  \* the onPasswordChange prop is given
  isPasswordDialogOpen, \* useState(false)
  isMFAEnabled,         \* useState(false)
  isSaving,             \* useState(false), shared by both handlers
  passwordForm,         \* useState({currentPassword, newPassword, confirmPassword})
  toastShown,           \* the last toast
  pendingCall,          \* the awaited call: "none", "onPasswordChange", "updateUser",
                        \* or updateUser with mfa_enabled: "mfaEnable", "mfaDisable"
  secEvt                \* history: what the last step did

pinVars == <<isAuthenticated, currentUser, remotePin, sessionUnlocked, storedUser,
             pinCache, isLocked, checking, effectPending, pinQueries, pin, error,
             isShaking, verifs, unlockRan, evt>>
aiVars == <<userRole, assets, sites, employees, vehicles, aiWords, aiResponse, aiArgs>>
splashVars == <<variant, platform, isAssetsLoading, isWaybillsLoading, isAppDataLoading,
                isDashboardDataLoaded, hasHiddenRef, showWebLoader, splashEffectPending,
                hideTimer, splashHidden, seen>>
electronVars == <<processPlatform, gotTheLock, argvDeepLink, appState, mainWindow,
                  splashWindow, readyToShowPending, readyPc, loadListener, mainFocused,
                  mainMaximized, closePending, elEvt>>
securityVars == <<hasOnPasswordChange, isPasswordDialogOpen, isMFAEnabled, isSaving,
                  passwordForm, toastShown, pendingCall, secEvt>>
vars == <<pinVars, aiVars, splashVars, electronVars, securityVars>>

(***************************************************************************)
(*                              PIN LOCK                                   *)
(***************************************************************************)
Users == {"u1", "u2"}
NoUser == "none"
Digits == {"1", "2"}
\* The PINs a user of the model types: the PIN of each hash.
TypedPins == {<<"1", "2", "1", "2">>, <<"2", "2", "1", "1">>}
IsTyped(p) == \E t \in TypedPins : Len(p) <= Len(t) /\ SubSeq(t, 1, Len(p)) = p
\* PinLockScreen: const maxLength = 4
maxLength == 4

\* A bcrypt hash keeps the salt it was made with and stands for the PIN hashed.
NoHash == [salt |-> "", pin |-> <<>>]
Hash(p, s) == [salt |-> s, pin |-> p]
HashA == Hash(<<"1", "2", "1", "2">>, "s1")
HashB == Hash(<<"2", "2", "1", "1">>, "s2")
Hashes == {HashA, HashB}
HashOrNone == Hashes \cup {NoHash}

\* bcrypt.compare(enteredPin, pinHash): the hash is a hash of the entered PIN
BcryptCompare(entered, hash) == hash # NoHash /\ hash.pin = entered

ErrNone == ""
ErrExpired == "Session expired"
ErrOffline == "OFFLINE: Cannot verify PIN. Connect to internet."
ErrIncorrect == "Incorrect PIN"
ErrFailed == "Verification failed"

\* What PinLockGuard returns: null, the PinLockScreen, or the children.
RenderOf(chk, locked, auth) ==
  IF chk /\ auth THEN "nothing"
  ELSE IF locked /\ auth THEN "lock"
  ELSE "children"

Rendered == RenderOf(checking, isLocked, isAuthenticated)

Slots == 1..MaxVerifies
IdleSlot == [phase |-> "idle", entered |-> <<>>, userId |-> NoUser,
             pinHash |-> NoHash, cached |-> FALSE, mounted |-> FALSE]
\* op: the operation; reply: the branch or the answer it saw; own: it concerned
\* the authenticated user; match: bcrypt.compare's answer; cached: verifyPin
\* found a cached hash; hasHash: the answer carried a pin_hash; unlocked:
\* onUnlock was called; mounted: the lock screen that started it still showed.
NoEvt == [op |-> "none", reply |-> "", own |-> FALSE, match |-> FALSE,
          cached |-> FALSE, hasHash |-> FALSE, unlocked |-> FALSE, mounted |-> FALSE]

QueryCount == pinQueries["u1"] + pinQueries["u2"]

\* The PinLockScreen exists only while the guard renders it: when the guard
\* renders something else the screen is unmounted, its state is dropped and a
\* later lock screen starts from useState('') / useState(false). verifyPin
\* calls of an unmounted screen keep running; their setError/setPin/
\* setIsShaking no longer show, their onUnlock still reaches the guard.
ScreenPin(r, p) == IF r = "lock" THEN p ELSE <<>>
ScreenError(r, e) == IF r = "lock" THEN e ELSE ErrNone
ScreenShaking(r, s) == IF r = "lock" THEN s ELSE FALSE
ScreenVerifs(r, v) ==
  IF r = "lock" THEN v
  ELSE [s \in Slots |->
          IF v[s].phase = "shake" THEN IdleSlot
          ELSE [v[s] EXCEPT !.mounted = FALSE]]

InitPin ==
  /\ isAuthenticated \in BOOLEAN
  /\ currentUser \in (IF isAuthenticated THEN Users ELSE {NoUser})
  /\ storedUser = currentUser
  /\ remotePin = [u \in Users |-> IF u = "u1" THEN HashA ELSE NoHash]
  /\ sessionUnlocked \in BOOLEAN
  /\ pinCache \in {c \in [Users -> HashOrNone] : c["u2"] = NoHash}
  /\ isLocked = FALSE
  /\ checking = TRUE
  /\ effectPending = TRUE
  /\ pinQueries = [u \in Users |-> 0]
  /\ pin = <<>>
  /\ error = ErrNone
  /\ isShaking = FALSE
  /\ verifs = [s \in Slots |-> IdleSlot]
  /\ unlockRan = FALSE
  /\ evt = NoEvt

(***************************************************************************)
(* PinLockGuard                                                            *)
(***************************************************************************)
\* A guard whose effect ignores the pin_unlocked flag of the session.
EffectBranch_NoSkip(auth, user, unlocked) ==
  IF ~auth \/ user = NoUser THEN "unauthenticated" ELSE "query"

\* The branch the guard's effect takes (PinLockGuard.tsx 21-57).
EffectBranch(auth, user, unlocked) ==
  IF ~auth \/ user = NoUser THEN "unauthenticated"
  ELSE IF unlocked THEN "skip"
  ELSE "query"

\* What checkPin does with the answer of the users query (36-52): "row" is an
\* answer with the user's row, "error" an answer without data, "throw" a
\* rejected query.
CheckPinBranch(outcome, hash) ==
  IF outcome = "row" /\ hash # NoHash THEN "lock" ELSE "unlock"

\* AuthContext.login: the user becomes the authenticated, stored user. The
\* guard's effect depends on isAuthenticated and currentUser?.id, so it is due.
Login(u) ==
  /\ ~isAuthenticated
  /\ ~effectPending
  /\ QueryCount < MaxQueries
  /\ isAuthenticated' = TRUE
  /\ currentUser' = u
  /\ storedUser' = u
  /\ effectPending' = TRUE
  /\ unlockRan' = FALSE
  /\ evt' = NoEvt
  /\ LET r == RenderOf(checking, isLocked, TRUE) IN
       /\ pin' = ScreenPin(r, pin)
       /\ error' = ScreenError(r, error)
       /\ isShaking' = ScreenShaking(r, isShaking)
       /\ verifs' = ScreenVerifs(r, verifs)
  /\ UNCHANGED <<remotePin, sessionUnlocked, pinCache, isLocked, checking, pinQueries>>
  /\ UNCHANGED <<aiVars, splashVars, electronVars, securityVars>>

\* AuthContext.logout: no user is authenticated or stored any more.
AuthLogout(clearFlag) ==
  /\ isAuthenticated' = FALSE
  /\ currentUser' = NoUser
  /\ storedUser' = NoUser
  /\ effectPending' = TRUE
  /\ sessionUnlocked' = IF clearFlag THEN FALSE ELSE sessionUnlocked
  /\ unlockRan' = FALSE
  /\ pin' = <<>>
  /\ error' = ErrNone
  /\ isShaking' = FALSE
  /\ verifs' = ScreenVerifs("children", verifs)
  /\ UNCHANGED <<remotePin, pinCache, isLocked, checking, pinQueries>>
  /\ UNCHANGED <<aiVars, splashVars, electronVars, securityVars>>

\* logout() called by the application outside the lock screen.
Logout ==
  /\ isAuthenticated
  /\ ~effectPending
  /\ Rendered # "lock"
  /\ evt' = NoEvt
  /\ AuthLogout(FALSE)

\* handleLogout (65-68), the lock screen's "Sign out instead".
HandleLogout ==
  /\ Rendered = "lock"
  /\ ~effectPending
  /\ evt' = NoEvt
  /\ AuthLogout(TRUE)

\* The effect of PinLockGuard (20-58), up to the call of checkPin.
RunEffect ==
  /\ effectPending
  /\ effectPending' = FALSE
  /\ LET b == EffectBranch(isAuthenticated, currentUser, sessionUnlocked) IN
       /\ checking' = IF b = "query" THEN checking ELSE FALSE
       /\ isLocked' = IF b = "query" THEN isLocked ELSE FALSE
       /\ pinQueries' = IF b = "query"
                        THEN [pinQueries EXCEPT ![currentUser] = @ + 1]
                        ELSE pinQueries
       /\ evt' = [NoEvt EXCEPT !.op = "effect", !.reply = b]
  /\ LET r == RenderOf(checking', isLocked', isAuthenticated) IN
       /\ pin' = ScreenPin(r, pin)
       /\ error' = ScreenError(r, error)
       /\ isShaking' = ScreenShaking(r, isShaking)
       /\ verifs' = ScreenVerifs(r, verifs)
  /\ UNCHANGED <<isAuthenticated, currentUser, remotePin, sessionUnlocked,
                 storedUser, pinCache, unlockRan>>
  /\ UNCHANGED <<aiVars, splashVars, electronVars, securityVars>>

\* checkPin after its await (43-54): the users query of user u is answered.
CheckPinResolve(u, outcome) ==
  /\ ~effectPending
  /\ pinQueries[u] > 0
  /\ pinQueries' = [pinQueries EXCEPT ![u] = @ - 1]
  /\ LET b == CheckPinBranch(outcome, remotePin[u]) IN
       /\ isLocked' = IF b = "lock" THEN TRUE ELSE isLocked
       /\ sessionUnlocked' = IF b = "unlock" THEN TRUE ELSE sessionUnlocked
       /\ checking' = FALSE
       /\ evt' = [NoEvt EXCEPT !.op = "checkPin", !.reply = outcome,
                               !.own = (isAuthenticated /\ u = currentUser),
                               !.hasHash = (outcome = "row" /\ remotePin[u] # NoHash)]
  /\ LET r == RenderOf(checking', isLocked', isAuthenticated) IN
       /\ pin' = ScreenPin(r, pin)
       /\ error' = ScreenError(r, error)
       /\ isShaking' = ScreenShaking(r, isShaking)
       /\ verifs' = ScreenVerifs(r, verifs)
  /\ UNCHANGED <<isAuthenticated, currentUser, remotePin, storedUser, pinCache,
                 effectPending, unlockRan>>
  /\ UNCHANGED <<aiVars, splashVars, electronVars, securityVars>>

(***************************************************************************)
(* PinLockScreen                                                           *)
(***************************************************************************)
FreeSlots == {s \in Slots : verifs[s].phase = "idle"}
FirstFree == CHOOSE s \in FreeSlots : \A t \in FreeSlots : s <= t

\* handleDigit (78-89): a fourth digit schedules verifyPin(newPin).
HandleDigit(d) ==
  /\ Rendered = "lock"
  /\ ~effectPending
  /\ Len(pin) < maxLength => IsTyped(Append(pin, d))
  /\ IF Len(pin) >= maxLength
     THEN /\ pin' = pin
          /\ verifs' = verifs
     ELSE LET newPin == Append(pin, d) IN
          /\ pin' = newPin
          /\ IF Len(newPin) = maxLength
             THEN /\ FreeSlots # {}
                  /\ verifs' = [verifs EXCEPT ![FirstFree] =
                        [IdleSlot EXCEPT !.phase = "scheduled", !.entered = newPin,
                                         !.mounted = TRUE]]
             ELSE verifs' = verifs
  /\ error' = ErrNone
  /\ evt' = NoEvt
  /\ UNCHANGED <<isAuthenticated, currentUser, remotePin, sessionUnlocked, storedUser,
                 pinCache, isLocked, checking, effectPending, pinQueries, isShaking,
                 unlockRan>>
  /\ UNCHANGED <<aiVars, splashVars, electronVars, securityVars>>

\* handleDelete (91-94)
HandleDelete ==
  /\ Rendered = "lock"
  /\ ~effectPending
  /\ pin' = IF pin = <<>> THEN <<>> ELSE SubSeq(pin, 1, Len(pin) - 1)
  /\ error' = ErrNone
  /\ evt' = NoEvt
  /\ UNCHANGED <<isAuthenticated, currentUser, remotePin, sessionUnlocked, storedUser,
                 pinCache, isLocked, checking, effectPending, pinQueries, isShaking,
                 verifs, unlockRan>>
  /\ UNCHANGED <<aiVars, splashVars, electronVars, securityVars>>

\* The guard's handleUnlock (60-63), reached through onUnlock, and the
\* unmounting of the lock screen that follows from it.
OnUnlock(vs) ==
  /\ sessionUnlocked' = TRUE
  /\ isLocked' = FALSE
  /\ unlockRan' = TRUE
  /\ LET r == RenderOf(checking, FALSE, isAuthenticated) IN
       /\ pin' = ScreenPin(r, pin)
       /\ error' = ScreenError(r, error)
       /\ isShaking' = ScreenShaking(r, isShaking)
       /\ verifs' = ScreenVerifs(r, vs)

\* verifyPin's "if (!pinHash)" (31): with a cached hash it goes on to the
\* comparison, without one it asks the remote.
StartBranch(h) == IF h # NoHash THEN "compare" ELSE "query"

\* verifyPin up to its first await of the remote or of bcrypt.compare (19-31):
\* the bcryptjs import, the stored user and the cached hash.
VerifyStart(s, importOk) ==
  /\ ~effectPending
  /\ verifs[s].phase = "scheduled"
  /\ LET v == verifs[s]
         done == [verifs EXCEPT ![s] = IdleSlot] IN
     IF ~importOk
     THEN /\ error' = IF v.mounted THEN ErrFailed ELSE error
          /\ pin' = IF v.mounted THEN <<>> ELSE pin
          /\ verifs' = done
          /\ evt' = [NoEvt EXCEPT !.op = "verifyFailed", !.mounted = v.mounted]
     ELSE IF storedUser = NoUser
     THEN /\ error' = IF v.mounted THEN ErrExpired ELSE error
          /\ pin' = pin
          /\ verifs' = done
          /\ evt' = [NoEvt EXCEPT !.op = "verifyExpired", !.mounted = v.mounted]
     ELSE LET h == pinCache[storedUser] IN
          /\ error' = error
          /\ pin' = pin
          /\ verifs' = [verifs EXCEPT ![s] =
                [v EXCEPT !.phase = StartBranch(h),
                          !.userId = storedUser, !.pinHash = h,
                          !.cached = (h # NoHash)]]
          /\ evt' = [NoEvt EXCEPT !.op = "verifyStart", !.cached = (h # NoHash),
                                  !.mounted = v.mounted]
  /\ UNCHANGED <<isAuthenticated, currentUser, remotePin, sessionUnlocked, storedUser,
                 pinCache, isLocked, checking, effectPending, pinQueries, isShaking,
                 unlockRan>>
  /\ UNCHANGED <<aiVars, splashVars, electronVars, securityVars>>

\* What verifyPin does with the answer of its users query (40-52).
ReplyBranch(outcome, dataHash) ==
  IF outcome = "row" /\ dataHash # NoHash THEN "cache"
  ELSE IF outcome = "dbError" THEN "log"
  ELSE IF outcome = "row" THEN "unlock"
  ELSE "log"

\* A verifyPin that does not write the fetched hash to localStorage.
CacheAfterReply_NoWrite(cache, userId, b, dataHash) == cache

\* localStorage.setItem(`pin_hash_${userId}`, pinHash) of the "cache" branch (43).
CacheAfterReply(cache, userId, b, dataHash) ==
  IF b = "cache" THEN [cache EXCEPT ![userId] = dataHash] ELSE cache

\* verifyPin from the answer of its users query to the next await (40-58).
VerifyReply(s, outcome) ==
  /\ ~effectPending
  /\ verifs[s].phase = "query"
  /\ LET v == verifs[s]
         dataHash == IF outcome = "row" THEN remotePin[v.userId] ELSE NoHash
         b == ReplyBranch(outcome, dataHash)
         done == [verifs EXCEPT ![s] = IdleSlot]
         e == [NoEvt EXCEPT !.op = "verifyReply", !.reply = outcome,
                            !.cached = v.cached, !.hasHash = (dataHash # NoHash),
                            !.mounted = v.mounted] IN
     CASE b = "cache" ->
            /\ pinCache' = CacheAfterReply(pinCache, v.userId, b, dataHash)
            /\ verifs' = [verifs EXCEPT ![s] =
                            [v EXCEPT !.phase = "compare", !.pinHash = dataHash]]
            /\ evt' = e
            /\ UNCHANGED <<sessionUnlocked, isLocked, unlockRan, pin, error, isShaking>>
       [] b = "unlock" ->
            /\ OnUnlock(done)
            /\ evt' = [e EXCEPT !.unlocked = TRUE]
            /\ UNCHANGED pinCache
       [] OTHER ->
            /\ error' = IF v.mounted THEN ErrOffline ELSE error
            /\ verifs' = done
            /\ evt' = e
            /\ UNCHANGED <<sessionUnlocked, isLocked, unlockRan, pin, isShaking, pinCache>>
  /\ UNCHANGED <<isAuthenticated, currentUser, remotePin, storedUser, checking,
                 effectPending, pinQueries>>
  /\ UNCHANGED <<aiVars, splashVars, electronVars, securityVars>>

\* A verifyPin that unlocks whatever bcrypt.compare answers.
CompareBranch_Always(isMatch) == "unlock"

\* verifyPin's "if (isMatch)" (61-70).
CompareBranch(isMatch) == IF isMatch THEN "unlock" ELSE "incorrect"

\* verifyPin after bcrypt.compare (60-70).
VerifyCompare(s) ==
  /\ ~effectPending
  /\ verifs[s].phase = "compare"
  /\ LET v == verifs[s]
         isMatch == BcryptCompare(v.entered, v.pinHash)
         e == [NoEvt EXCEPT !.op = "verifyCompare", !.match = isMatch,
                            !.cached = v.cached, !.hasHash = (v.pinHash # NoHash),
                            !.mounted = v.mounted] IN
     IF CompareBranch(isMatch) = "unlock"
     THEN /\ OnUnlock([verifs EXCEPT ![s] = IdleSlot])
          /\ evt' = [e EXCEPT !.unlocked = TRUE]
     ELSE /\ error' = IF v.mounted THEN ErrIncorrect ELSE error
          /\ isShaking' = IF v.mounted THEN TRUE ELSE isShaking
          /\ verifs' = [verifs EXCEPT ![s] =
                IF v.mounted THEN [v EXCEPT !.phase = "shake"] ELSE IdleSlot]
          /\ evt' = e
          /\ UNCHANGED <<sessionUnlocked, isLocked, unlockRan, pin>>
  /\ UNCHANGED <<isAuthenticated, currentUser, remotePin, storedUser, pinCache,
                 checking, effectPending, pinQueries>>
  /\ UNCHANGED <<aiVars, splashVars, electronVars, securityVars>>

\* The 500 ms timer set after an incorrect PIN (66-69).
ShakeTimeout(s) ==
  /\ ~effectPending
  /\ verifs[s].phase = "shake"
  /\ isShaking' = FALSE
  /\ pin' = <<>>
  /\ verifs' = [verifs EXCEPT ![s] = IdleSlot]
  /\ evt' = NoEvt
  /\ UNCHANGED <<isAuthenticated, currentUser, remotePin, sessionUnlocked, storedUser,
                 pinCache, isLocked, checking, effectPending, pinQueries, error,
                 unlockRan>>
  /\ UNCHANGED <<aiVars, splashVars, electronVars, securityVars>>

NextPin ==
  \/ \E u \in Users : Login(u)
  \/ Logout
  \/ HandleLogout
  \/ RunEffect
  \/ \E u \in Users, o \in {"row", "error", "throw"} : CheckPinResolve(u, o)
  \/ \E d \in Digits : HandleDigit(d)
  \/ HandleDelete
  \/ \E s \in Slots, ok \in BOOLEAN : VerifyStart(s, ok)
  \/ \E s \in Slots, o \in {"row", "dbError", "throw"} : VerifyReply(s, o)
  \/ \E s \in Slots : VerifyCompare(s)
  \/ \E s \in Slots : ShakeTimeout(s)


(***************************************************************************)
(* Claims about the PIN lock                                               *)
(***************************************************************************)
\* C1: for an authenticated user whose users row has a pin_hash, in a session
\* whose pin_unlocked flag is not set, the guard does not render the children
\* before handleUnlock has run.
C1_ChildrenOnlyAfterUnlock ==
  (isAuthenticated /\ currentUser \in Users /\ remotePin[currentUser] # NoHash
     /\ ~sessionUnlocked /\ ~unlockRan)
  => Rendered # "children"

\* C2: verifyPin calls onUnlock only when bcrypt.compare finds the entered PIN
\* to match the hash, or when no hash was cached and the users row was read
\* without error and carries no pin_hash; an entry that does not match is not
\* unlocked and the lock screen shows 'Incorrect PIN'.
C2_UnlockOnlyOnMatch ==
  /\ evt.unlocked =>
       \/ evt.op = "verifyCompare" /\ evt.match
       \/ evt.op = "verifyReply" /\ ~evt.cached /\ evt.reply = "row" /\ ~evt.hasHash
  /\ (evt.op = "verifyCompare" /\ ~evt.match) =>
       /\ ~evt.unlocked
       /\ evt.mounted => error = ErrIncorrect

C2_Witness ==
  /\ evt.op = "verifyCompare" /\ evt.match /\ evt.unlocked
  /\ sessionUnlocked /\ ~isLocked /\ Rendered = "children"

\* C3: a verifyPin call that finds a cached hash never queries the remote and
\* compares against the cached hash; a call that fetched the hash has written
\* it to the cache before it compares; a cached hash is never removed, so the
\* later calls for that user need no remote.
C3_CacheThenCompare ==
  /\ [][\A s \in Slots :
          (verifs[s].phase = "scheduled" /\ storedUser # NoUser
             /\ pinCache[storedUser] # NoHash)
          => /\ verifs'[s].phase # "query"
             /\ verifs'[s].phase = "compare" => verifs'[s].pinHash = pinCache[storedUser]]_vars
  /\ [](\A s \in Slots :
          verifs[s].phase = "compare" => pinCache[verifs[s].userId] = verifs[s].pinHash)
  /\ [][\A u \in Users : pinCache[u] # NoHash => pinCache'[u] = pinCache[u]]_vars

C3_Witness ==
  /\ evt.op = "verifyReply" /\ evt.reply = "row" /\ evt.hasHash /\ ~evt.cached
  /\ \E s \in Slots : /\ verifs[s].phase = "compare"
                      /\ pinCache[verifs[s].userId] = verifs[s].pinHash

\* C7: while the user is authenticated and the users query of the effect is
\* still in flight, the guard renders nothing.
C7_NothingWhileChecking ==
  (isAuthenticated /\ currentUser \in Users /\ pinQueries[currentUser] > 0)
  => Rendered = "nothing"

\* C8: when the users query of the authenticated user is answered without a
\* pin_hash or throws, pin_unlocked is set, checking ends and the children are
\* rendered.
C8_NoPinRendersChildren ==
  (evt.op = "checkPin" /\ evt.own /\ ~evt.hasHash)
  => (sessionUnlocked /\ ~checking /\ Rendered = "children")

\* C9: when the effect runs for an authenticated user whose session has
\* pin_unlocked set, no users query is issued, checking and isLocked become
\* false and the children are rendered, with or without a PIN set.
C9_UnlockedSessionSkips ==
  [][(effectPending /\ isAuthenticated /\ currentUser \in Users /\ sessionUnlocked)
       => /\ pinQueries' = pinQueries
          /\ ~checking' /\ ~isLocked'
          /\ RenderOf(checking', isLocked', isAuthenticated') = "children"]_vars

C9_Witness ==
  /\ evt.op = "effect" /\ evt.reply = "skip"
  /\ isAuthenticated /\ remotePin[currentUser] # NoHash
  /\ QueryCount = 0 /\ Rendered = "children"

(***************************************************************************)
(*                      AI ASSISTANT (aiAssistant.ts)                      *)
(***************************************************************************)
\* A text is a sequence of one-character strings.
\* The keywords of identifyIntent and of the parse functions (91-133, 204-334).
Kw == [
  create |-> <<"c", "r", "e", "a", "t", "e">>,
  waybill |-> <<"w", "a", "y", "b", "i", "l", "l">>,
  new |-> <<"n", "e", "w">>,
  send |-> <<"s", "e", "n", "d">>,
  site |-> <<"s", "i", "t", "e">>,
  dispatch |-> <<"d", "i", "s", "p", "a", "t", "c", "h">>,
  add |-> <<"a", "d", "d">>,
  asset |-> <<"a", "s", "s", "e", "t">>,
  item |-> <<"i", "t", "e", "m">>,
  process |-> <<"p", "r", "o", "c", "e", "s", "s">>,
  return |-> <<"r", "e", "t", "u", "r", "n">>,
  from |-> <<"f", "r", "o", "m">>,
  receive |-> <<"r", "e", "c", "e", "i", "v", "e">>,
  back |-> <<"b", "a", "c", "k">>,
  check |-> <<"c", "h", "e", "c", "k">>,
  inventory |-> <<"i", "n", "v", "e", "n", "t", "o", "r", "y">>,
  show |-> <<"s", "h", "o", "w">>,
  stock |-> <<"s", "t", "o", "c", "k">>,
  level |-> <<"l", "e", "v", "e", "l">>,
  how |-> <<"h", "o", "w">>,
  many |-> <<"m", "a", "n", "y">>,
  analytics |-> <<"a", "n", "a", "l", "y", "t", "i", "c", "s">>,
  view |-> <<"v", "i", "e", "w">>,
  report |-> <<"r", "e", "p", "o", "r", "t">>,
  statistics |-> <<"s", "t", "a", "t", "i", "s", "t", "i", "c", "s">>,
  dewatering |-> <<"d", "e", "w", "a", "t", "e", "r", "i", "n", "g">>,
  waterproofing |-> <<"w", "a", "t", "e", "r", "p", "r", "o", "o", "f", "i", "n", "g">>,
  consumable |-> <<"c", "o", "n", "s", "u", "m", "a", "b", "l", "e">>,
  equipment |-> <<"e", "q", "u", "i", "p", "m", "e", "n", "t">>,
  machine |-> <<"m", "a", "c", "h", "i", "n", "e">>,
  location |-> <<"l", "o", "c", "a", "t", "i", "o", "n">>
]

Lower(c) ==
  CASE c = "D" -> "d" [] c = "R" -> "r" [] c = "L" -> "l" [] c = "P" -> "p"
    [] c = "J" -> "j" [] c = "K" -> "k" [] c = "A" -> "a" [] c = "T" -> "t"
    [] OTHER -> c

\* String.prototype.toLowerCase
ToLowerCase(text) == [i \in 1..Len(text) |-> Lower(text[i])]

\* String.prototype.includes
OccursAt(text, kw, i) == \A j \in 1..Len(kw) : text[i + j - 1] = kw[j]
Includes(text, kw) == \E i \in 1..(Len(text) - Len(kw) + 1) : OccursAt(text, kw, i)

\* String.prototype.indexOf, counted from 1; 0 when kw does not occur
IndexOf(text, kw) ==
  IF Includes(text, kw)
  THEN CHOOSE i \in 1..(Len(text) - Len(kw) + 1) :
         /\ OccursAt(text, kw, i)
         /\ \A j \in 1..(i - 1) : ~OccursAt(text, kw, j)
  ELSE 0

RECURSIVE Str(_)
\* The JavaScript string of a text
Str(text) == IF text = <<>> THEN "" ELSE text[1] \o Str(Tail(text))

IsDigit(c) == c \in {"0", "1", "2", "3", "4", "5", "6", "7", "8", "9"}
DigitVal(c) ==
  CASE c = "0" -> 0 [] c = "1" -> 1 [] c = "2" -> 2 [] c = "3" -> 3 [] c = "4" -> 4
    [] c = "5" -> 5 [] c = "6" -> 6 [] c = "7" -> 7 [] c = "8" -> 8 [] c = "9" -> 9

RECURSIVE ParseInt(_)
\* parseInt of a text of digits
ParseInt(ds) ==
  IF ds = <<>> THEN 0
  ELSE 10 * ParseInt(SubSeq(ds, 1, Len(ds) - 1)) + DigitVal(ds[Len(ds)])

RECURSIVE Split(_)
\* The words of a text, split at spaces
Split(text) ==
  IF text = <<>> THEN <<>>
  ELSE IF text[1] = " " THEN Split(Tail(text))
  ELSE LET n == IF \E i \in 1..Len(text) : text[i] = " "
                 THEN (CHOOSE i \in 1..Len(text) :
                         text[i] = " " /\ \A j \in 1..(i - 1) : text[j] # " ") - 1
                 ELSE Len(text)
       IN <<SubSeq(text, 1, n)>> \o Split(SubSeq(text, n + 1, Len(text)))

IsNumberWord(w) == w # <<>> /\ \A i \in 1..Len(w) : IsDigit(w[i])

\* doc.numbers().out('array') of compromise, for texts whose only numbers are
\* words written in digits
Numbers(text) == SelectSeq(Split(text), IsNumberWord)

\* matchesPattern (144-146)
matchesPattern(text, keywords) ==
  \A k \in 1..Len(keywords) : Includes(text, keywords[k])

Undefined == -1

RECURSIVE FindByName(_, _)
\* The loop of findSiteInText / findEmployeeInText (350-357, 381-388): the
\* first element whose lower-cased name the text includes; <<>> for null,
\* else a one-element sequence.
FindByName(list, text) ==
  IF list = <<>> THEN <<>>
  ELSE IF Includes(ToLowerCase(text), ToLowerCase(list[1].chars)) THEN <<list[1]>>
  ELSE FindByName(Tail(list), text)

findSiteInText(self, text) == FindByName(self.sites, text)
findEmployeeInText(self, text) == FindByName(self.employees, text)

RECURSIVE FindVehicle(_, _)
\* findVehicleInText (390-398)
FindVehicle(list, text) ==
  IF list = <<>> THEN <<>>
  ELSE LET regNumber == IF list[1].registration_number # <<>>
                        THEN list[1].registration_number ELSE list[1].chars
       IN IF Includes(ToLowerCase(text), ToLowerCase(regNumber)) THEN <<list[1]>>
          ELSE FindVehicle(Tail(list), text)

findVehicleInText(self, text) == FindVehicle(self.vehicles, text)

RECURSIVE TrimEnd(_)
TrimEnd(t) ==
  IF t # <<>> /\ t[Len(t)] = " " THEN TrimEnd(SubSeq(t, 1, Len(t) - 1)) ELSE t

RECURSIVE TrailingDigits(_)
TrailingDigits(t) ==
  IF t # <<>> /\ IsDigit(t[Len(t)])
  THEN TrailingDigits(SubSeq(t, 1, Len(t) - 1)) \o <<t[Len(t)]>>
  ELSE <<>>

\* beforeText.match(/(\d+)\s*$/) of findAssetsInText (366-373): the quantity
\* written before the asset's name, Undefined when there is none
QuantityBefore(text, nameLower) ==
  LET assetIndex == IndexOf(text, nameLower) - 1
      from == IF assetIndex - 20 > 0 THEN assetIndex - 20 ELSE 0
      beforeText == SubSeq(text, from + 1, assetIndex)
      ds == TrailingDigits(TrimEnd(beforeText))
  IN IF ds = <<>> THEN Undefined ELSE ParseInt(ds)

RECURSIVE FindAssets(_, _)
\* findAssetsInText (359-379)
FindAssets(list, text) ==
  IF list = <<>> THEN <<>>
  ELSE LET assetNameLower == ToLowerCase(list[1].chars)
           rest == FindAssets(Tail(list), text)
       IN IF Includes(text, assetNameLower)
          THEN <<[id |-> list[1].id, name |-> list[1].name,
                  quantity |-> QuantityBefore(text, assetNameLower)]>> \o rest
          ELSE rest

findAssetsInText(self, text) == FindAssets(self.assets, text)

\* The empty parameters object {}
NoParams == [k \in {} |-> ""]

\* parseWaybillIntent (148-197). The texts of the model have no "for ", so
\* the purpose regex (186-189) does not match.
parseWaybillIntent(self, text) ==
  LET siteMatch == findSiteInText(self, text)
      items == findAssetsInText(self, text)
      employee == findEmployeeInText(self, text)
      vehicle == findVehicleInText(self, text)
      pSite == IF siteMatch # <<>>
               THEN ("siteName" :> siteMatch[1].name) @@ ("siteId" :> siteMatch[1].id)
               ELSE NoParams
      pItems == IF Len(items) > 0 THEN ("items" :> items) ELSE NoParams
      pDriver == IF employee # <<>>
                 THEN ("driver" :> employee[1].name) @@ ("driverId" :> employee[1].id)
                 ELSE NoParams
      pVehicle == IF vehicle # <<>>
                  THEN ("vehicle" :> (IF vehicle[1].registration_number # <<>>
                                      THEN Str(vehicle[1].registration_number)
                                      ELSE vehicle[1].name))
                       @@ ("vehicleId" :> vehicle[1].id)
                  ELSE NoParams
  IN [action |-> "create_waybill",
      confidence |-> 80,
      parameters |-> pSite @@ pItems @@ pDriver @@ pVehicle,
      missingParameters |-> (IF siteMatch # <<>> THEN <<>> ELSE <<"site">>)
                            \o (IF Len(items) > 0 THEN <<>> ELSE <<"items">>)]

\* The first place where one of the words is followed by a space and at least
\* one more character, as <<place, length of the word>>; <<0, 0>> when none.
\* The texts of the model have no quotes and no commas.
LeadMatch(text, words) ==
  LET good == {h \in (1..Len(text)) \X words :
                 /\ h[1] + Len(h[2]) + 1 <= Len(text)
                 /\ SubSeq(text, h[1], h[1] + Len(h[2]) - 1) = h[2]
                 /\ text[h[1] + Len(h[2])] = " "}
  IN IF good = {} THEN <<0, 0>>
     ELSE LET h == CHOOSE g \in good : \A o \in good : g[1] <= o[1]
          IN <<h[1], Len(h[2])>>

\* text.match(/(?:add|create|new)\s+(?:asset\s+)?["']?([^"',]+)["']?/i)[1].trim()
\* of parseAssetIntent (204-206); <<>> when the regex does not match
AssetNameMatch(text) ==
  LET m == LeadMatch(text, {Kw.add, Kw.create, Kw.new})
      rest == SubSeq(text, m[1] + m[2] + 1, Len(text))
      skip == Kw.asset \o <<" ">>
  IN IF m[1] = 0 THEN <<>>
     ELSE IF Len(rest) > Len(skip) /\ SubSeq(rest, 1, Len(skip)) = skip
     THEN TrimEnd(SubSeq(rest, Len(skip) + 1, Len(rest)))
     ELSE TrimEnd(rest)

\* parseAssetIntent (199-242). The texts of the model name no unit, so the
\* unit regex (231-234) does not match.
parseAssetIntent(self, text) ==
  LET nameMatch == AssetNameMatch(text)
      numbers == Numbers(text)
      pName == IF nameMatch # <<>> THEN ("name" :> Str(nameMatch)) ELSE NoParams
      pQty == IF Len(numbers) > 0 THEN ("quantity" :> ParseInt(numbers[1])) ELSE NoParams
      pCat == IF Includes(text, Kw.dewatering) THEN ("category" :> "dewatering")
              ELSE IF Includes(text, Kw.waterproofing) THEN ("category" :> "waterproofing")
              ELSE IF Includes(text, Kw.consumable) THEN ("type" :> "consumable")
              ELSE IF Includes(text, Kw.equipment) THEN ("type" :> "equipment")
              ELSE NoParams
  IN [action |-> "add_asset",
      confidence |-> 80,
      parameters |-> pName @@ pQty @@ pCat,
      missingParameters |-> (IF nameMatch # <<>> THEN <<>> ELSE <<"name">>)
                            \o (IF Len(numbers) > 0 THEN <<>> ELSE <<"quantity">>)]

\* parseReturnIntent (244-271)
parseReturnIntent(self, text) ==
  LET site == findSiteInText(self, text)
      items == findAssetsInText(self, text)
      pSite == IF site # <<>>
               THEN ("siteName" :> site[1].name) @@ ("siteId" :> site[1].id)
               ELSE NoParams
      pItems == IF Len(items) > 0 THEN ("items" :> items) ELSE NoParams
  IN [action |-> "process_return",
      confidence |-> 75,
      parameters |-> pSite @@ pItems,
      missingParameters |-> (IF site # <<>> THEN <<>> ELSE <<"site">>)
                            \o (IF Len(items) > 0 THEN <<>> ELSE <<"items">>)]

\* text.match(/(?:site|location)\s+["']?([^"',]+)["']?/i)[1].trim() of
\* parseSiteIntent (278-280); <<>> when the regex does not match
SiteNameMatch(text) ==
  LET m == LeadMatch(text, {Kw.site, Kw.location})
  IN IF m[1] = 0 THEN <<>> ELSE TrimEnd(SubSeq(text, m[1] + m[2] + 1, Len(text)))

\* parseSiteIntent (273-297). The texts of the model have no "at " and no
\* "address ", so the address regex (286-289) does not match.
parseSiteIntent(self, text) ==
  LET nameMatch == SiteNameMatch(text)
  IN [action |-> "create_site",
      confidence |-> 70,
      parameters |-> IF nameMatch # <<>> THEN ("name" :> Str(nameMatch)) ELSE NoParams,
      missingParameters |-> IF nameMatch # <<>> THEN <<>> ELSE <<"name">>]

\* parseInventoryCheckIntent (299-322)
parseInventoryCheckIntent(self, text) ==
  LET found == findAssetsInText(self, text)
      site == findSiteInText(self, text)
      pAsset == IF found # <<>>
                THEN ("assetName" :> found[1].name) @@ ("assetId" :> found[1].id)
                ELSE NoParams
      pSite == IF site # <<>>
               THEN ("siteName" :> site[1].name) @@ ("siteId" :> site[1].id)
               ELSE NoParams
  IN [action |-> "check_inventory",
      confidence |-> 85,
      parameters |-> pAsset @@ pSite,
      missingParameters |-> <<>>]

\* parseAnalyticsIntent (324-348)
parseAnalyticsIntent(self, text) ==
  LET site == findSiteInText(self, text)
      pType == IF Includes(text, Kw.consumable) THEN ("type" :> "consumable")
               ELSE IF Includes(text, Kw.equipment) \/ Includes(text, Kw.machine)
               THEN ("type" :> "equipment")
               ELSE IF Includes(text, Kw.site) THEN ("type" :> "site")
               ELSE NoParams
      pSite == IF site # <<>>
               THEN ("siteName" :> site[1].name) @@ ("siteId" :> site[1].id)
               ELSE NoParams
  IN [action |-> "view_analytics",
      confidence |-> 75,
      parameters |-> pType @@ pSite,
      missingParameters |-> <<>>]

UnknownIntent ==
  [action |-> "unknown", confidence |-> 0, parameters |-> NoParams,
   missingParameters |-> <<>>]

\* The pattern tests of identifyIntent, one per intent.
\* create_waybill (91-94)
WaybillPatterns(text) ==
  \/ matchesPattern(text, <<Kw.create, Kw.waybill>>)
  \/ matchesPattern(text, <<Kw.new, Kw.waybill>>)
  \/ matchesPattern(text, <<Kw.send, Kw.site>>)
  \/ matchesPattern(text, <<Kw.dispatch>>)
\* add_asset (99-102)
AssetPatterns(text) ==
  \/ matchesPattern(text, <<Kw.add, Kw.asset>>)
  \/ matchesPattern(text, <<Kw.new, Kw.asset>>)
  \/ matchesPattern(text, <<Kw.add, Kw.item>>)
  \/ matchesPattern(text, <<Kw.create, Kw.asset>>)
\* process_return (107-109)
ReturnPatterns(text) ==
  \/ matchesPattern(text, <<Kw.process, Kw.return>>)
  \/ matchesPattern(text, <<Kw.return, Kw.from>>)
  \/ matchesPattern(text, <<Kw.receive, Kw.back>>)
\* create_site (114-116)
SitePatterns(text) ==
  \/ matchesPattern(text, <<Kw.create, Kw.site>>)
  \/ matchesPattern(text, <<Kw.add, Kw.site>>)
  \/ matchesPattern(text, <<Kw.new, Kw.site>>)
\* check_inventory (121-124)
InventoryPatterns(text) ==
  \/ matchesPattern(text, <<Kw.check, Kw.inventory>>)
  \/ matchesPattern(text, <<Kw.show, Kw.stock>>)
  \/ matchesPattern(text, <<Kw.inventory, Kw.level>>)
  \/ matchesPattern(text, <<Kw.how, Kw.many>>)
\* view_analytics (129-132)
AnalyticsPatterns(text) ==
  \/ matchesPattern(text, <<Kw.show, Kw.analytics>>)
  \/ matchesPattern(text, <<Kw.view, Kw.analytics>>)
  \/ matchesPattern(text, <<Kw.report>>)
  \/ matchesPattern(text, <<Kw.statistics>>)

\* identifyIntent with the site patterns tested before the asset patterns
identifyIntent_SiteFirst(self, rawInput) ==
  LET text == ToLowerCase(rawInput) IN
  IF WaybillPatterns(text) THEN parseWaybillIntent(self, text)
  ELSE IF SitePatterns(text) THEN parseSiteIntent(self, text)
  ELSE IF AssetPatterns(text) THEN parseAssetIntent(self, text)
  ELSE IF ReturnPatterns(text) THEN parseReturnIntent(self, text)
  ELSE IF InventoryPatterns(text) THEN parseInventoryCheckIntent(self, text)
  ELSE IF AnalyticsPatterns(text) THEN parseAnalyticsIntent(self, text)
  ELSE UnknownIntent

\* identifyIntent (87-142)
identifyIntent(self, rawInput) ==
  LET text == ToLowerCase(rawInput) IN
  IF WaybillPatterns(text) THEN parseWaybillIntent(self, text)
  ELSE IF AssetPatterns(text) THEN parseAssetIntent(self, text)
  ELSE IF ReturnPatterns(text) THEN parseReturnIntent(self, text)
  ELSE IF SitePatterns(text) THEN parseSiteIntent(self, text)
  ELSE IF InventoryPatterns(text) THEN parseInventoryCheckIntent(self, text)
  ELSE IF AnalyticsPatterns(text) THEN parseAnalyticsIntent(self, text)
  ELSE UnknownIntent

Roles == {"admin", "data_entry_supervisor", "regulatory", "manager", "staff"}

\* rolePermissions of checkPermissions (401-421)
rolePermissions ==
  [admin |-> {"create_waybill", "add_asset", "process_return", "create_site",
              "add_employee", "add_vehicle", "generate_report", "view_analytics",
              "send_to_site", "check_inventory", "update_asset"},
   data_entry_supervisor |-> {"create_waybill", "add_asset", "process_return",
              "check_inventory", "view_analytics", "send_to_site", "update_asset"},
   regulatory |-> {"check_inventory", "view_analytics", "generate_report"},
   manager |-> {"create_waybill", "add_asset", "process_return", "check_inventory",
              "view_analytics", "generate_report", "send_to_site"},
   staff |-> {"check_inventory", "view_analytics"}]

\* action.replace(/_/g, ' ')
ActionWords(action) ==
  CASE action = "create_waybill" -> "create waybill"
    [] action = "add_asset" -> "add asset"
    [] action = "process_return" -> "process return"
    [] action = "create_site" -> "create site"
    [] action = "check_inventory" -> "check inventory"
    [] action = "view_analytics" -> "view analytics"
    [] OTHER -> action

\* checkPermissions that allows every action
checkPermissions_AllowAll(self, action) == [allowed |-> TRUE, message |-> ""]

\* checkPermissions (400-433)
checkPermissions(self, action) ==
  LET allowed == self.userRole \in DOMAIN rolePermissions
                   /\ action \in rolePermissions[self.userRole]
  IN IF ~allowed
     THEN [allowed |-> FALSE,
           message |-> "You don't have permission to perform this action. Your role ("
                       \o self.userRole \o ") cannot execute: " \o ActionWords(action)]
     ELSE [allowed |-> TRUE, message |-> ""]

RECURSIVE JoinComma(_)
\* Array.prototype.join(', ')
JoinComma(ss) ==
  IF ss = <<>> THEN ""
  ELSE IF Len(ss) = 1 THEN ss[1]
  ELSE ss[1] \o ", " \o JoinComma(Tail(ss))

\* generateClarificationMessage (435-440)
generateClarificationMessage(intent) ==
  "I understand you want to " \o ActionWords(intent.action)
    \o ". However, I need more information about: "
    \o JoinComma(intent.missingParameters) \o ". Please provide these details."

\* A response without suggestedAction has type "none" and data "".
NoSuggestion == [type |-> "none", data |-> ""]

\* params.key when the key is there and its value is truthy, else ""
Param(params, key) == IF key \in DOMAIN params THEN params[key] ELSE ""

RECURSIVE SumQuantity(_)
SumQuantity(list) ==
  IF list = <<>> THEN 0 ELSE list[1].quantity + SumQuantity(Tail(list))

RECURSIVE JoinSiteItems(_, _)
\* siteAssets.slice(0, 5).map(...).join(', ') (550-552)
JoinSiteItems(list, siteId) ==
  IF list = <<>> THEN ""
  ELSE list[1].name \o ": " \o ToString(list[1].siteQuantities[siteId])
       \o (IF Len(list) = 1 THEN "" ELSE ", " \o JoinSiteItems(Tail(list), siteId))

\* generateInventoryResponse (526-577)
generateInventoryResponse(self, params) ==
  LET message ==
        IF Param(params, "assetId") # ""
        THEN LET hit == SelectSeq(self.assets, LAMBDA a : a.id = params["assetId"])
             IN IF hit # <<>>
                THEN LET asset == hit[1] IN
                     asset.name \o ": " \o ToString(asset.quantity) \o " "
                       \o asset.unitOfMeasurement \o " in stock"
                       \o (IF asset.availableQuantity # Undefined
                           THEN " (" \o ToString(asset.availableQuantity) \o " available)"
                           ELSE "")
                       \o (IF Param(params, "siteId") # ""
                              /\ params["siteId"] \in DOMAIN asset.siteQuantities
                           THEN ", " \o ToString(asset.siteQuantities[params["siteId"]])
                                \o " at " \o Param(params, "siteName")
                           ELSE "")
                ELSE "Asset not found: " \o Param(params, "assetName")
        ELSE IF Param(params, "siteId") # ""
        THEN LET siteAssets == SelectSeq(self.assets, LAMBDA a :
                                 /\ params["siteId"] \in DOMAIN a.siteQuantities
                                 /\ a.siteQuantities[params["siteId"]] > 0)
             IN Param(params, "siteName") \o " has " \o ToString(Len(siteAssets))
                  \o " different items. "
                  \o JoinSiteItems(SubSeq(siteAssets, 1,
                        IF Len(siteAssets) < 5 THEN Len(siteAssets) ELSE 5), params["siteId"])
                  \o (IF Len(siteAssets) > 5
                      THEN " and " \o ToString(Len(siteAssets) - 5) \o " more..."
                      ELSE "")
        ELSE LET totalAssets == Len(self.assets)
                 totalQty == SumQuantity(self.assets)
                 lowStock == Len(SelectSeq(self.assets,
                                LAMBDA a : a.quantity > 0 /\ a.quantity < 10))
                 outOfStock == Len(SelectSeq(self.assets, LAMBDA a : a.quantity = 0))
             IN "Total inventory: " \o ToString(totalAssets) \o " items ("
                  \o ToString(totalQty) \o " units). "
                  \o (IF lowStock > 0
                      THEN ToString(lowStock) \o " items low on stock. " ELSE "")
                  \o (IF outOfStock > 0
                      THEN ToString(outOfStock) \o " items out of stock." ELSE "")
  IN [success |-> TRUE,
      message |-> message,
      intent |-> [action |-> "check_inventory", confidence |-> 90,
                  parameters |-> params, missingParameters |-> <<>>],
      suggestedAction |-> NoSuggestion]

\* generateActionResponse (442-524)
generateActionResponse(self, intent) ==
  LET p == intent.parameters IN
  CASE intent.action = "create_waybill" ->
         [success |-> TRUE,
          message |-> "I'll help you create a waybill"
                      \o (IF Param(p, "siteName") # ""
                          THEN " for " \o p["siteName"] ELSE "") \o ".",
          intent |-> intent,
          suggestedAction |-> [type |-> "open_form", data |-> "waybill"]]
    [] intent.action = "add_asset" ->
         [success |-> TRUE,
          message |-> "I'll help you add"
                      \o (IF Param(p, "name") # ""
                          THEN " " \o p["name"] ELSE " a new asset")
                      \o " to the inventory.",
          intent |-> intent,
          suggestedAction |-> [type |-> "open_form", data |-> "asset"]]
    [] intent.action = "process_return" ->
         [success |-> TRUE,
          message |-> "I'll help you process a return"
                      \o (IF Param(p, "siteName") # ""
                          THEN " from " \o p["siteName"] ELSE "") \o ".",
          intent |-> intent,
          suggestedAction |-> [type |-> "open_form", data |-> "return"]]
    [] intent.action = "check_inventory" ->
         generateInventoryResponse(self, p)
    [] intent.action = "view_analytics" ->
         [success |-> TRUE,
          message |-> "Opening analytics dashboard"
                      \o (IF Param(p, "siteName") # ""
                          THEN " for " \o p["siteName"] ELSE "") \o ".",
          intent |-> intent,
          suggestedAction |-> [type |-> "execute_action", data |-> "open_analytics"]]
    [] intent.action = "create_site" ->
         [success |-> TRUE,
          message |-> "I'll help you create a new site"
                      \o (IF Param(p, "name") # ""
                          THEN " called " \o p["name"] ELSE "") \o ".",
          intent |-> intent,
          suggestedAction |-> [type |-> "open_form", data |-> "site"]]
    [] OTHER ->
         [success |-> FALSE,
          message |-> "I'm not sure what you want me to do. Can you rephrase that?",
          intent |-> intent,
          suggestedAction |-> NoSuggestion]

\* The response processInput returns (57-85)
processInput(self, userInput) ==
  LET intent == identifyIntent(self, userInput)
      permissionCheck == checkPermissions(self, intent.action)
  IN IF ~permissionCheck.allowed
     THEN [success |-> FALSE, message |-> permissionCheck.message, intent |-> intent,
           suggestedAction |-> NoSuggestion]
     ELSE IF Len(intent.missingParameters) > 0
     THEN [success |-> FALSE, message |-> generateClarificationMessage(intent),
           intent |-> intent, suggestedAction |-> [type |-> "clarify", data |-> ""]]
     ELSE generateActionResponse(self, intent)

\* The service object after processInput: the method assigns to no field.
ServiceAfterProcessInput(self, userInput) == self

\* new AIAssistantService(userRole, assets, sites, employees, vehicles) (31-43)
Construct(role, a, s, e, v) ==
  [userRole |-> role, assets |-> a, sites |-> s, employees |-> e, vehicles |-> v]

\* updateContext (45-55)
updateContext(self, a, s, e, v) ==
  [self EXCEPT !.assets = a, !.sites = s, !.employees = e, !.vehicles = v]

Self == Construct(userRole, assets, sites, employees, vehicles)

\* The phrases of the model's user inputs. "Dispatch" and "Report" are
\* capitalised, "show many" holds "how" and "many", "Pump" and "Lagos" are the
\* names of the context's asset and site.
Vocabulary ==
  {Kw.new, Kw.asset, Kw.site,
   Kw.return \o <<" ">> \o Kw.from,
   Kw.show \o <<" ">> \o Kw.many,
   <<"R", "e", "p", "o", "r", "t">>,
   <<"D", "i", "s", "p", "a", "t", "c", "h">>,
   <<"5", " ", "p", "u", "m", "p">>,
   <<"l", "a", "g", "o", "s">>}

RECURSIVE JoinWords(_)
\* The user input made of the words
JoinWords(ws) ==
  IF ws = <<>> THEN <<>>
  ELSE IF Len(ws) = 1 THEN ws[1]
  ELSE ws[1] \o <<" ">> \o JoinWords(Tail(ws))

\* The contexts the application hands to the service: nothing, or one site,
\* one asset, one employee and one vehicle.
SiteLagos == [id |-> "s1", name |-> "Lagos", chars |-> <<"L", "a", "g", "o", "s">>]
AssetPump ==
  [id |-> "a1", name |-> "Pump", chars |-> <<"P", "u", "m", "p">>, quantity |-> 7,
   unitOfMeasurement |-> "units", availableQuantity |-> 5,
   siteQuantities |-> ("s1" :> 2)]
EmployeeJohn == [id |-> "e1", name |-> "John", chars |-> <<"J", "o", "h", "n">>]
VehicleKja == [id |-> "v1", name |-> "Truck", chars |-> <<"T", "r", "u", "c", "k">>,
               registration_number |-> <<"K", "J", "A", "5">>]
EmptyContext == [assets |-> <<>>, sites |-> <<>>, employees |-> <<>>, vehicles |-> <<>>]
FullContext == [assets |-> <<AssetPump>>, sites |-> <<SiteLagos>>,
                employees |-> <<EmployeeJohn>>, vehicles |-> <<VehicleKja>>]
Contexts == {EmptyContext, FullContext}

NoResponse ==
  [success |-> FALSE, message |-> "", intent |-> UnknownIntent,
   suggestedAction |-> [type |-> "unasked", data |-> ""]]

InitAI ==
  /\ userRole \in Roles
  /\ \E c \in Contexts :
       /\ assets = c.assets /\ sites = c.sites
       /\ employees = c.employees /\ vehicles = c.vehicles
       /\ aiArgs = [role |-> userRole, context |-> c, earlier |-> FALSE]
  /\ aiWords = <<>>
  /\ aiResponse = NoResponse

\* The user adds a word to the input.
TypeWord(w) ==
  /\ aiResponse = NoResponse
  /\ Len(aiWords) < MaxWords
  /\ aiWords' = Append(aiWords, w)
  /\ UNCHANGED <<userRole, assets, sites, employees, vehicles, aiResponse, aiArgs>>
  /\ UNCHANGED <<pinVars, splashVars, electronVars, securityVars>>

\* processInput(userInput) (57-85)
ProcessInput ==
  /\ aiResponse = NoResponse
  /\ LET userInput == JoinWords(aiWords)
         after == ServiceAfterProcessInput(Self, userInput) IN
       /\ aiResponse' = processInput(Self, userInput)
       /\ userRole' = after.userRole
       /\ assets' = after.assets
       /\ sites' = after.sites
       /\ employees' = after.employees
       /\ vehicles' = after.vehicles
  /\ UNCHANGED <<aiWords, aiArgs>>
  /\ UNCHANGED <<pinVars, splashVars, electronVars, securityVars>>

\* The user starts the next input.
NextInput ==
  /\ aiResponse # NoResponse
  /\ aiWords' = <<>>
  /\ aiResponse' = NoResponse
  /\ aiArgs' = [aiArgs EXCEPT !.earlier = TRUE]
  /\ UNCHANGED <<userRole, assets, sites, employees, vehicles>>
  /\ UNCHANGED <<pinVars, splashVars, electronVars, securityVars>>

\* updateContext(assets, sites, employees, vehicles) (45-55)
UpdateContext(c) ==
  /\ aiResponse = NoResponse
  /\ aiWords = <<>>
  /\ LET after == updateContext(Self, c.assets, c.sites, c.employees, c.vehicles) IN
       /\ userRole' = after.userRole
       /\ assets' = after.assets
       /\ sites' = after.sites
       /\ employees' = after.employees
       /\ vehicles' = after.vehicles
  /\ aiArgs' = [aiArgs EXCEPT !.context = c]
  /\ UNCHANGED <<aiWords, aiResponse>>
  /\ UNCHANGED <<pinVars, splashVars, electronVars, securityVars>>

NextAI ==
  \/ \E w \in Vocabulary : TypeWord(w)
  \/ ProcessInput
  \/ NextInput
  \/ \E c \in Contexts : UpdateContext(c)

(***************************************************************************)
(* Claims about the AI assistant                                           *)
(***************************************************************************)
\* The order and the patterns the claim C4 names.
IntentOrder ==
  <<"create_waybill", "add_asset", "process_return", "create_site",
    "check_inventory", "view_analytics">>
ClaimedPatterns ==
  [create_waybill |-> {<<Kw.create, Kw.waybill>>, <<Kw.new, Kw.waybill>>,
                       <<Kw.send, Kw.site>>, <<Kw.dispatch>>},
   add_asset |-> {<<Kw.add, Kw.asset>>, <<Kw.new, Kw.asset>>, <<Kw.add, Kw.item>>,
                  <<Kw.create, Kw.asset>>},
   process_return |-> {<<Kw.process, Kw.return>>, <<Kw.return, Kw.from>>,
                       <<Kw.receive, Kw.back>>},
   create_site |-> {<<Kw.create, Kw.site>>, <<Kw.add, Kw.site>>, <<Kw.new, Kw.site>>},
   check_inventory |-> {<<Kw.check, Kw.inventory>>, <<Kw.show, Kw.stock>>,
                        <<Kw.inventory, Kw.level>>, <<Kw.how, Kw.many>>},
   view_analytics |-> {<<Kw.show, Kw.analytics>>, <<Kw.view, Kw.analytics>>,
                       <<Kw.report>>, <<Kw.statistics>>}]
\* The places in IntentOrder of the intents of which a pattern has all its
\* keywords in the text
MatchedPlaces(text) ==
  {i \in 1..Len(IntentOrder) :
     \E pat \in ClaimedPatterns[IntentOrder[i]] :
       \A k \in 1..Len(pat) : Includes(text, pat[k])}
AskedText == ToLowerCase(JoinWords(aiWords))

\* C4: the intent of an answered input is the earliest, in the fixed order, of
\* the intents of which a pattern matches; an input that matches no pattern
\* has the intent unknown with confidence 0, no parameters and no missing
\* parameters.
C4_FirstMatchWins ==
  aiResponse # NoResponse =>
    LET m == MatchedPlaces(AskedText) IN
    IF m = {}
    THEN /\ aiResponse.intent.action = "unknown"
         /\ aiResponse.intent.confidence = 0
         /\ DOMAIN aiResponse.intent.parameters = {}
         /\ aiResponse.intent.missingParameters = <<>>
    ELSE \E i \in m : /\ \A j \in m : i <= j
                      /\ aiResponse.intent.action = IntentOrder[i]

C4_Witness ==
  /\ aiResponse # NoResponse
  /\ {2, 4} \subseteq MatchedPlaces(AskedText)
  /\ 1 \notin MatchedPlaces(AskedText)
  /\ aiResponse.intent.action = "add_asset"

\* C5: a response with success or with a suggested action is given only for
\* an action the role's permission list holds; staff and regulatory get no
\* open_form, and create_site is answered so only for admin.
C5_OnlyPermittedActions ==
  aiResponse # NoResponse =>
    LET granted == aiResponse.success \/ aiResponse.suggestedAction.type # "none" IN
    /\ granted => aiResponse.intent.action \in rolePermissions[userRole]
    /\ userRole \in {"staff", "regulatory"} =>
         aiResponse.suggestedAction.type # "open_form"
    /\ (granted /\ aiResponse.intent.action = "create_site") => userRole = "admin"

C5_Witness ==
  /\ aiResponse.success
  /\ aiResponse.suggestedAction.type = "open_form"
  /\ aiResponse.intent.action = "create_waybill"
  /\ userRole = "manager"

\* C15: for an input that matches no intent pattern (action unknown)
\* processInput returns success false and the message "I'm not sure what you
\* want me to do. Can you rephrase that?", whatever the role.
C15_UnknownAsksToRephrase ==
  (aiResponse # NoResponse /\ aiResponse.intent.action = "unknown") =>
    /\ ~aiResponse.success
    /\ aiResponse.message = "I'm not sure what you want me to do. Can you rephrase that?"


(***************************************************************************)
(*           SPLASH SCREEN (SplashScreenController.tsx)                    *)
(* The file defines SplashScreenController twice: the first definition     *)
(* (10-80) reads the dashboard loading context and has a web loader, the   *)
(* second (90-134) acts on native platforms only and does not read the     *)
(* dashboard loading context. A build mounts one of them.                  *)
(***************************************************************************)
Variants == {"combined", "nativeOnly"}
Platforms == {"web", "android", "ios"}

\* const isNative = platform === 'android' || platform === 'ios'
isNative(p) == p = "android" \/ p = "ios"

\* A first controller that forgets the app-data flag.
isAllDataLoaded_NoAppData(assetsLoading, waybillsLoading, appDataLoading, dashboardLoaded) ==
  ~assetsLoading /\ ~waybillsLoading /\ dashboardLoaded

\* isAllDataLoaded of the first controller (27)
isAllDataLoaded(assetsLoading, waybillsLoading, appDataLoading, dashboardLoaded) ==
  ~assetsLoading /\ ~waybillsLoading /\ ~appDataLoading /\ dashboardLoaded

\* isAllDataLoaded of the native-only controller (106)
isAllDataLoadedNativeOnly(assetsLoading, waybillsLoading, appDataLoading) ==
  ~assetsLoading /\ ~waybillsLoading /\ ~appDataLoading

\* The dependencies of the effect: (59) and (131).
EffectDeps(v) ==
  IF v = "combined" THEN {"assets", "waybills", "appData", "dashboard"}
  ELSE {"assets", "waybills", "appData"}

\* What the effect does: "return" (24, 103, 104), "wait" (46-55, 119-127), or
\* the hide it starts, "native" (32-40, 111-118) or "web" (41-45).
SplashBranch(v, p, hidden, assetsLoading, waybillsLoading, appDataLoading, dashboardLoaded) ==
  IF v = "combined"
  THEN IF hidden THEN "return"
       ELSE IF isAllDataLoaded(assetsLoading, waybillsLoading, appDataLoading, dashboardLoaded)
       THEN (IF isNative(p) THEN "native" ELSE "web")
       ELSE "wait"
  ELSE IF ~isNative(p) THEN "return"
       ELSE IF hidden THEN "return"
       ELSE IF isAllDataLoadedNativeOnly(assetsLoading, waybillsLoading, appDataLoading)
       THEN "native"
       ELSE "wait"

\* What the first controller returns (61-79); the second returns null (133).
SplashRendered ==
  IF variant = "combined" /\ ~isNative(platform) /\ showWebLoader THEN "loader" ELSE "null"

NoSeen == [ran |-> FALSE, assets |-> TRUE, waybills |-> TRUE, appData |-> TRUE,
           dashboard |-> FALSE]

InitSplash ==
  /\ variant \in Variants
  /\ platform \in Platforms
  /\ isAssetsLoading \in BOOLEAN
  /\ isWaybillsLoading \in BOOLEAN
  /\ isAppDataLoading \in BOOLEAN
  /\ isDashboardDataLoaded \in BOOLEAN
  /\ hasHiddenRef = FALSE
  /\ showWebLoader = TRUE
  /\ splashEffectPending = TRUE
  /\ hideTimer = "none"
  /\ splashHidden = FALSE
  /\ seen = NoSeen

\* A loading flag of a context changes; the effect is due when the flag is
\* one of its dependencies.
AssetsLoadingChanges ==
  /\ isAssetsLoading' = ~isAssetsLoading
  /\ splashEffectPending' = TRUE
  /\ UNCHANGED <<variant, platform, isWaybillsLoading, isAppDataLoading,
                 isDashboardDataLoaded, hasHiddenRef, showWebLoader, hideTimer,
                 splashHidden, seen>>
  /\ UNCHANGED <<pinVars, aiVars, electronVars, securityVars>>

WaybillsLoadingChanges ==
  /\ isWaybillsLoading' = ~isWaybillsLoading
  /\ splashEffectPending' = TRUE
  /\ UNCHANGED <<variant, platform, isAssetsLoading, isAppDataLoading,
                 isDashboardDataLoaded, hasHiddenRef, showWebLoader, hideTimer,
                 splashHidden, seen>>
  /\ UNCHANGED <<pinVars, aiVars, electronVars, securityVars>>

AppDataLoadingChanges ==
  /\ isAppDataLoading' = ~isAppDataLoading
  /\ splashEffectPending' = TRUE
  /\ UNCHANGED <<variant, platform, isAssetsLoading, isWaybillsLoading,
                 isDashboardDataLoaded, hasHiddenRef, showWebLoader, hideTimer,
                 splashHidden, seen>>
  /\ UNCHANGED <<pinVars, aiVars, electronVars, securityVars>>

DashboardLoadedChanges ==
  /\ isDashboardDataLoaded' = ~isDashboardDataLoaded
  /\ splashEffectPending' = (splashEffectPending \/ "dashboard" \in EffectDeps(variant))
  /\ UNCHANGED <<variant, platform, isAssetsLoading, isWaybillsLoading,
                 isAppDataLoading, hasHiddenRef, showWebLoader, hideTimer,
                 splashHidden, seen>>
  /\ UNCHANGED <<pinVars, aiVars, electronVars, securityVars>>

\* The effect, up to its first await (19-35, 41-59 and 97-113, 119-131).
CheckAndHideSplash ==
  /\ splashEffectPending
  /\ splashEffectPending' = FALSE
  /\ LET b == SplashBranch(variant, platform, hasHiddenRef, isAssetsLoading,
                           isWaybillsLoading, isAppDataLoading, isDashboardDataLoaded) IN
       IF b \in {"native", "web"}
       THEN /\ hasHiddenRef' = TRUE
            /\ hideTimer' = b
            /\ seen' = [ran |-> TRUE, assets |-> isAssetsLoading,
                        waybills |-> isWaybillsLoading, appData |-> isAppDataLoading,
                        dashboard |-> isDashboardDataLoaded]
       ELSE UNCHANGED <<hasHiddenRef, hideTimer, seen>>
  /\ UNCHANGED <<variant, platform, isAssetsLoading, isWaybillsLoading, isAppDataLoading,
                 isDashboardDataLoaded, showWebLoader, splashHidden>>
  /\ UNCHANGED <<pinVars, aiVars, electronVars, securityVars>>

\* After the 300 ms wait SplashScreen.hide resolves, or throws and is logged
\* (35-40, 113-118).
NativeHide(ok) ==
  /\ hideTimer = "native"
  /\ hideTimer' = "none"
  /\ splashHidden' = ok
  /\ UNCHANGED <<variant, platform, isAssetsLoading, isWaybillsLoading, isAppDataLoading,
                 isDashboardDataLoaded, hasHiddenRef, showWebLoader, splashEffectPending,
                 seen>>
  /\ UNCHANGED <<pinVars, aiVars, electronVars, securityVars>>

\* The 300 ms timer of the web loader: setShowWebLoader(false) (43).
WebLoaderTimeout ==
  /\ hideTimer = "web"
  /\ hideTimer' = "none"
  /\ showWebLoader' = FALSE
  /\ UNCHANGED <<variant, platform, isAssetsLoading, isWaybillsLoading, isAppDataLoading,
                 isDashboardDataLoaded, hasHiddenRef, splashEffectPending, splashHidden,
                 seen>>
  /\ UNCHANGED <<pinVars, aiVars, electronVars, securityVars>>

NextSplash ==
  \/ AssetsLoadingChanges
  \/ WaybillsLoadingChanges
  \/ AppDataLoadingChanges
  \/ DashboardLoadedChanges
  \/ CheckAndHideSplash
  \/ \E ok \in BOOLEAN : NativeHide(ok)
  \/ WebLoaderTimeout

(***************************************************************************)
(* Claims about the splash screen                                          *)
(***************************************************************************)
HidePerformed == splashHidden \/ ~showWebLoader

\* C10 as stated: the splash screen or the web loader is hidden only after the
\* effect saw the assets, waybills and app-data flags all false and the
\* dashboard data reported loaded.
C10_HideOnlyWhenAllLoaded ==
  HidePerformed =>
    /\ seen.ran
    /\ ~seen.assets /\ ~seen.waybills /\ ~seen.appData
    /\ seen.dashboard

\* C10, amended: the splash screen or the web loader is hidden only after the
\* effect saw the assets, waybills and app-data flags all false and, in the
\* controller that reads the dashboard loading context, the dashboard data
\* reported loaded; an effect run that sees one of them still loading starts
\* no hide.
C10_HideOnlyWhenLoadedAsRead ==
  /\ HidePerformed =>
       /\ seen.ran
       /\ ~seen.assets /\ ~seen.waybills /\ ~seen.appData
       /\ variant = "combined" => seen.dashboard
  /\ (hasHiddenRef \/ hideTimer # "none") => seen.ran
  /\ seen.ran =>
       /\ ~seen.assets /\ ~seen.waybills /\ ~seen.appData
       /\ variant = "combined" => seen.dashboard

C10_Witness ==
  /\ variant = "combined" /\ platform = "web"
  /\ SplashRendered = "null" /\ ~showWebLoader
  /\ seen.ran /\ seen.dashboard /\ ~seen.appData

(***************************************************************************)
(*              ELECTRON MAIN PROCESS (electron/main.js)                   *)
(***************************************************************************)
\* String.prototype.startsWith
StartsWith(text, prefix) ==
  /\ Len(prefix) <= Len(text)
  /\ \A i \in 1..Len(prefix) : text[i] = prefix[i]

\* The URLs the renderer asks to open in a new window: https://a, http://a,
\* httpx://a, file:///a, mailto:a, HTTP://a.
OpenUrls ==
  {<<"h", "t", "t", "p", "s", ":", "/", "/", "a">>,
   <<"h", "t", "t", "p", ":", "/", "/", "a">>,
   <<"h", "t", "t", "p", "x", ":", "/", "/", "a">>,
   <<"f", "i", "l", "e", ":", "/", "/", "/", "a">>,
   <<"m", "a", "i", "l", "t", "o", ":", "a">>,
   <<"H", "T", "T", "P", ":", "/", "/", "a">>}

\* No deep link: the undefined of Array.prototype.find
NoLink == <<>>

\* The command lines of a second-instance event: app; app dcel-inventory://a;
\* app dcel-inventory:/a dcel-inventory://b dcel-inventory://a.
CommandLines ==
  {<<<<"a", "p", "p">>>>,
   <<<<"a", "p", "p">>,
     <<"d", "c", "e", "l", "-", "i", "n", "v", "e", "n", "t", "o", "r", "y", ":", "/", "/", "a">>>>,
   <<<<"a", "p", "p">>,
     <<"d", "c", "e", "l", "-", "i", "n", "v", "e", "n", "t", "o", "r", "y", ":", "/", "a">>,
     <<"d", "c", "e", "l", "-", "i", "n", "v", "e", "n", "t", "o", "r", "y", ":", "/", "/", "b">>,
     <<"d", "c", "e", "l", "-", "i", "n", "v", "e", "n", "t", "o", "r", "y", ":", "/", "/", "a">>>>}

RECURSIVE FindDeepLink(_)
\* commandLine.find((arg) => arg.startsWith('dcel-inventory://')) (108, 125);
\* NoLink for undefined
FindDeepLink(commandLine) ==
  IF commandLine = <<>> THEN NoLink
  ELSE IF StartsWith(Head(commandLine), <<"d", "c", "e", "l", "-", "i", "n", "v", "e", "n",
                                         "t", "o", "r", "y", ":", "/", "/">>)
  THEN Head(commandLine)
  ELSE FindDeepLink(Tail(commandLine))

\* A window that was created and is not destroyed.
Alive(w) == w \in {"hidden", "visible", "minimized", "open"}

\* op: the handler; arg: the URL asked for or the deep link sent; cmd: the
\* command line of a second-instance event; action: the answer of the window
\* open handler; external: shell.openExternal was called; hadWindow: a main
\* window existed; wasMinimized: it was minimized; restored, focused: restore()
\* and focus() were called; threw: the handler ended with an exception.
NoElEvt == [op |-> "none", arg |-> NoLink, cmd |-> <<>>, action |-> "", external |-> FALSE,
            hadWindow |-> FALSE, wasMinimized |-> FALSE, restored |-> FALSE,
            focused |-> FALSE, threw |-> FALSE]

\* The module is evaluated (1-175): without the lock app.quit() is called
\* (98-99) and neither the second-instance handler nor whenReady is set up.
InitElectron ==
  /\ processPlatform \in {"darwin", "win32", "linux"}
  /\ gotTheLock \in BOOLEAN
  /\ argvDeepLink \in {FindDeepLink(c) : c \in CommandLines}
  /\ appState = IF gotTheLock THEN "launching" ELSE "quit"
  /\ mainWindow = "undefined"
  /\ splashWindow = "undefined"
  /\ readyToShowPending = FALSE
  /\ readyPc = 0
  /\ loadListener = FALSE
  /\ mainFocused = FALSE
  /\ mainMaximized = FALSE
  /\ closePending = FALSE
  /\ elEvt = NoElEvt

\* createWindow (11-76): the splash window is created shown, the main window
\* with show: false, and the ready-to-show listener is registered once.
CreateWindow ==
  /\ splashWindow' = "open"
  /\ mainWindow' = "hidden"
  /\ readyToShowPending' = TRUE
  /\ mainFocused' = FALSE
  /\ mainMaximized' = FALSE
  /\ closePending' = FALSE

\* app.whenReady().then(...) (115-135), set up in the else branch of line 100
AppReady ==
  /\ gotTheLock
  /\ appState = "launching"
  /\ appState' = "ready"
  /\ CreateWindow
  /\ loadListener' = (argvDeepLink # NoLink)
  /\ elEvt' = [NoElEvt EXCEPT !.op = "ready"]
  /\ UNCHANGED <<processPlatform, gotTheLock, argvDeepLink, readyPc>>
  /\ UNCHANGED <<pinVars, aiVars, splashVars, securityVars>>

\* app.on('activate', ...) (118-122), an event of macOS
Activate ==
  /\ appState = "ready"
  /\ processPlatform = "darwin"
  /\ readyPc = 0
  /\ IF ~Alive(mainWindow) /\ ~Alive(splashWindow)
     THEN CreateWindow
     ELSE UNCHANGED <<splashWindow, mainWindow, readyToShowPending, mainFocused,
                      mainMaximized, closePending>>
  /\ elEvt' = [NoElEvt EXCEPT !.op = "activate"]
  /\ UNCHANGED <<processPlatform, gotTheLock, argvDeepLink, appState, readyPc,
                 loadListener>>
  /\ UNCHANGED <<pinVars, aiVars, splashVars, securityVars>>

\* The statements of the ready-to-show handler, in their order (71-76)
ReadyToShowOrder == <<"destroySplash", "showMain">>

\* if (splashWindow && !splashWindow.isDestroyed()) splashWindow.destroy() (72-74)
SplashAfter(stmt, splash) ==
  IF stmt = "destroySplash" /\ splash = "open" THEN "destroyed" ELSE splash

\* mainWindow.show() (75)
MainAfter(stmt, main) == IF stmt = "showMain" THEN "visible" ELSE main

\* The ready-to-show event of the main window: the handler starts and runs
\* its first statement.
ReadyToShow ==
  /\ appState = "ready"
  /\ readyToShowPending
  /\ Alive(mainWindow)
  /\ readyPc = 0
  /\ readyToShowPending' = FALSE
  /\ readyPc' = 1
  /\ splashWindow' = SplashAfter(ReadyToShowOrder[1], splashWindow)
  /\ mainWindow' = MainAfter(ReadyToShowOrder[1], mainWindow)
  /\ mainFocused' = (mainWindow' = "visible")
  /\ elEvt' = [NoElEvt EXCEPT !.op = "readyToShow"]
  /\ UNCHANGED <<mainMaximized, closePending>>
  /\ UNCHANGED <<processPlatform, gotTheLock, argvDeepLink, appState, loadListener>>
  /\ UNCHANGED <<pinVars, aiVars, splashVars, securityVars>>

\* The handler runs its second statement and ends; no other handler runs in
\* between.
ReadyToShowNext ==
  /\ readyPc = 1
  /\ readyPc' = 0
  /\ splashWindow' = SplashAfter(ReadyToShowOrder[2], splashWindow)
  /\ mainWindow' = MainAfter(ReadyToShowOrder[2], mainWindow)
  /\ mainFocused' = (mainWindow' = "visible")
  /\ elEvt' = [NoElEvt EXCEPT !.op = "readyToShowEnd"]
  /\ UNCHANGED <<mainMaximized, closePending>>
  /\ UNCHANGED <<processPlatform, gotTheLock, argvDeepLink, appState,
                 readyToShowPending, loadListener>>
  /\ UNCHANGED <<pinVars, aiVars, splashVars, securityVars>>

\* The did-finish-load listener registered for a deep link of process.argv
\* (131-133)
DidFinishLoad ==
  /\ appState = "ready"
  /\ readyPc = 0
  /\ loadListener
  /\ Alive(mainWindow)
  /\ elEvt' = [NoElEvt EXCEPT !.op = "didFinishLoad", !.arg = argvDeepLink]
  /\ UNCHANGED <<mainMaximized, closePending>>
  /\ UNCHANGED <<processPlatform, gotTheLock, argvDeepLink, appState, mainWindow,
                 splashWindow, readyToShowPending, readyPc, loadListener, mainFocused>>
  /\ UNCHANGED <<pinVars, aiVars, splashVars, securityVars>>

\* The second-instance handler (101-113). mainWindow is assigned in
\* createWindow only and never cleared: once the window is destroyed the
\* variable still holds it, the test of line 103 passes and
\* mainWindow.isMinimized() throws "Object has been destroyed". focus() leaves
\* a hidden window hidden.
SecondInstance(commandLine) ==
  /\ gotTheLock
  /\ appState # "quit"
  /\ readyPc = 0
  /\ LET e == [NoElEvt EXCEPT !.op = "secondInstance", !.cmd = commandLine,
                              !.hadWindow = Alive(mainWindow),
                              !.wasMinimized = (mainWindow = "minimized")] IN
     IF mainWindow = "undefined"
     THEN /\ elEvt' = e
          /\ UNCHANGED <<mainWindow, mainFocused>>
     ELSE IF mainWindow = "destroyed"
     THEN /\ elEvt' = [e EXCEPT !.threw = TRUE]
          /\ UNCHANGED <<mainWindow, mainFocused>>
     ELSE /\ mainWindow' = IF mainWindow = "minimized" THEN "visible" ELSE mainWindow
          /\ mainFocused' = (mainWindow' = "visible")
          /\ elEvt' = [e EXCEPT !.restored = (mainWindow = "minimized"),
                                !.focused = TRUE,
                                !.arg = FindDeepLink(commandLine)]
  /\ UNCHANGED <<mainMaximized, closePending>>
  /\ UNCHANGED <<processPlatform, gotTheLock, argvDeepLink, appState, splashWindow,
                 readyToShowPending, readyPc, loadListener>>
  /\ UNCHANGED <<pinVars, aiVars, splashVars, securityVars>>

\* The open-url handler (138-145), an event of macOS, set up in the else
\* branch of line 100: the same steps as second-instance, with the URL of the
\* event sent as it is. It throws on a destroyed main window as well.
OpenUrl(url) ==
  /\ gotTheLock
  /\ appState # "quit"
  /\ processPlatform = "darwin"
  /\ readyPc = 0
  /\ LET e == [NoElEvt EXCEPT !.op = "openUrl",
                              !.hadWindow = Alive(mainWindow),
                              !.wasMinimized = (mainWindow = "minimized")] IN
     IF mainWindow = "undefined"
     THEN /\ elEvt' = e
          /\ UNCHANGED <<mainWindow, mainFocused>>
     ELSE IF mainWindow = "destroyed"
     THEN /\ elEvt' = [e EXCEPT !.threw = TRUE]
          /\ UNCHANGED <<mainWindow, mainFocused>>
     ELSE /\ mainWindow' = IF mainWindow = "minimized" THEN "visible" ELSE mainWindow
          /\ mainFocused' = (mainWindow' = "visible")
          /\ elEvt' = [e EXCEPT !.restored = (mainWindow = "minimized"),
                                !.focused = TRUE,
                                !.arg = url]
  /\ UNCHANGED <<mainMaximized, closePending>>
  /\ UNCHANGED <<processPlatform, gotTheLock, argvDeepLink, appState, splashWindow,
                 readyToShowPending, readyPc, loadListener>>
  /\ UNCHANGED <<pinVars, aiVars, splashVars, securityVars>>

\* A handler that tests the prefix without its colon.
OpensExternally_NoColon(url) == StartsWith(url, <<"h", "t", "t", "p">>)

\* url.startsWith('https:') || url.startsWith('http:') (80)
OpensExternally(url) ==
  \/ StartsWith(url, <<"h", "t", "t", "p", "s", ":">>)
  \/ StartsWith(url, <<"h", "t", "t", "p", ":">>)

\* The window open handler of the main window (79-84)
WindowOpen(url) ==
  /\ appState = "ready"
  /\ readyPc = 0
  /\ Alive(mainWindow)
  /\ elEvt' = [NoElEvt EXCEPT !.op = "windowOpen", !.arg = url, !.action = "deny",
                              !.external = OpensExternally(url)]
  /\ UNCHANGED <<mainMaximized, closePending>>
  /\ UNCHANGED <<processPlatform, gotTheLock, argvDeepLink, appState, mainWindow,
                 splashWindow, readyToShowPending, readyPc, loadListener, mainFocused>>
  /\ UNCHANGED <<pinVars, aiVars, splashVars, securityVars>>

\* window-all-closed (151-155)
AppStateAfterClose(main, splash, state) ==
  IF ~Alive(main) /\ ~Alive(splash) /\ processPlatform # "darwin" THEN "quit" ELSE state

\* The channels below are set up with ipcMain.handle at the top level
\* (158-175) and are invoked by a renderer through the preload script, which
\* only the main window has (52): its page is loaded at 63-68, before
\* ready-to-show. The handlers test nothing but mainWindow?. : on an undefined
\* mainWindow they do nothing, on a destroyed one the call throws.

\* 'window:minimize' (158): minimize() of a hidden window leaves it minimized
\* in the task bar.
WindowMinimize ==
  /\ appState # "quit"
  /\ readyPc = 0
  /\ mainWindow' = IF Alive(mainWindow) THEN "minimized" ELSE mainWindow
  /\ mainFocused' = (mainFocused /\ ~Alive(mainWindow))
  /\ elEvt' = [NoElEvt EXCEPT !.op = "minimize", !.hadWindow = Alive(mainWindow),
                              !.threw = (mainWindow = "destroyed")]
  /\ UNCHANGED <<mainMaximized, closePending>>
  /\ UNCHANGED <<processPlatform, gotTheLock, argvDeepLink, appState, splashWindow,
                 readyToShowPending, readyPc, loadListener>>
  /\ UNCHANGED <<pinVars, aiVars, splashVars, securityVars>>

\* 'window:maximize' (159-167): unmaximize() when maximized, else maximize(),
\* which also shows, without focusing it, a window that is not displayed.
WindowMaximize ==
  /\ appState # "quit"
  /\ readyPc = 0
  /\ IF ~Alive(mainWindow)
     THEN UNCHANGED <<mainWindow, mainMaximized>>
     ELSE IF mainMaximized
     THEN /\ mainMaximized' = FALSE
          /\ UNCHANGED mainWindow
     ELSE /\ mainMaximized' = TRUE
          /\ mainWindow' = "visible"
  /\ elEvt' = [NoElEvt EXCEPT !.op = "maximize", !.hadWindow = Alive(mainWindow),
                              !.threw = (mainWindow = "destroyed")]
  /\ UNCHANGED <<processPlatform, gotTheLock, argvDeepLink, appState, splashWindow,
                 readyToShowPending, readyPc, loadListener, mainFocused, closePending>>
  /\ UNCHANGED <<pinVars, aiVars, splashVars, securityVars>>

\* 'window:close' (168): close() asks the window to close and returns; the
\* window is still there when the handler ends.
WindowClose ==
  /\ appState # "quit"
  /\ readyPc = 0
  /\ closePending' = (closePending \/ Alive(mainWindow))
  /\ elEvt' = [NoElEvt EXCEPT !.op = "close", !.hadWindow = Alive(mainWindow),
                              !.threw = (mainWindow = "destroyed")]
  /\ UNCHANGED <<processPlatform, gotTheLock, argvDeepLink, appState, mainWindow,
                 splashWindow, readyToShowPending, readyPc, loadListener, mainFocused,
                 mainMaximized>>
  /\ UNCHANGED <<pinVars, aiVars, splashVars, securityVars>>

\* The close asked for at line 168 comes to its end in a later turn of the
\* event loop: the window is closed, its listeners go with it and
\* window-all-closed (151-155) runs when it was the last window, or the page
\* cancels the close and the window stays.
MainCloseSettles(closed) ==
  /\ appState # "quit"
  /\ readyPc = 0
  /\ closePending
  /\ Alive(mainWindow)
  /\ closePending' = FALSE
  /\ IF closed
     THEN /\ mainWindow' = "destroyed"
          /\ mainFocused' = FALSE
          /\ loadListener' = FALSE
          /\ readyToShowPending' = FALSE
          /\ appState' = AppStateAfterClose(mainWindow', splashWindow, appState)
     ELSE UNCHANGED <<mainWindow, mainFocused, loadListener, readyToShowPending, appState>>
  /\ elEvt' = [NoElEvt EXCEPT !.op = IF closed THEN "closed" ELSE "closeCancelled"]
  /\ UNCHANGED <<processPlatform, gotTheLock, argvDeepLink, splashWindow, readyPc,
                 mainMaximized>>
  /\ UNCHANGED <<pinVars, aiVars, splashVars, securityVars>>

\* 'window:isMaximized', 'window:toggleDevTools' and
\* 'window:update-title-bar-overlay' (169-175): no window changes.
WindowQuery(channel) ==
  /\ appState # "quit"
  /\ readyPc = 0
  /\ elEvt' = [NoElEvt EXCEPT !.op = channel, !.hadWindow = Alive(mainWindow),
                              !.threw = (mainWindow = "destroyed")]
  /\ UNCHANGED <<processPlatform, gotTheLock, argvDeepLink, appState, mainWindow,
                 splashWindow, readyToShowPending, readyPc, loadListener, mainFocused,
                 mainMaximized, closePending>>
  /\ UNCHANGED <<pinVars, aiVars, splashVars, securityVars>>

\* The user closes the splash window before the main window is ready: the
\* case splashWindow.isDestroyed() of line 72 tests for.
SplashClosed ==
  /\ appState = "ready"
  /\ readyPc = 0
  /\ splashWindow = "open"
  /\ splashWindow' = "destroyed"
  /\ appState' = AppStateAfterClose(mainWindow, splashWindow', appState)
  /\ elEvt' = [NoElEvt EXCEPT !.op = "splashClosed"]
  /\ UNCHANGED <<mainMaximized, closePending>>
  /\ UNCHANGED <<processPlatform, gotTheLock, argvDeepLink, mainWindow,
                 readyToShowPending, readyPc, loadListener, mainFocused>>
  /\ UNCHANGED <<pinVars, aiVars, splashVars, securityVars>>

NextElectron ==
  \/ AppReady
  \/ Activate
  \/ ReadyToShow
  \/ ReadyToShowNext
  \/ DidFinishLoad
  \/ \E c \in CommandLines : SecondInstance(c)
  \/ \E u \in OpenUrls \cup {FindDeepLink(c) : c \in CommandLines} : OpenUrl(u)
  \/ \E u \in OpenUrls : WindowOpen(u)
  \/ WindowMinimize
  \/ WindowMaximize
  \/ \E ch \in {"window:isMaximized", "window:toggleDevTools",
                 "window:update-title-bar-overlay"} : WindowQuery(ch)
  \/ WindowClose
  \/ \E closed \in BOOLEAN : MainCloseSettles(closed)
  \/ SplashClosed

(***************************************************************************)
(* Claims about the electron main process                                  *)
(***************************************************************************)
\* C11: the main window is created hidden and is shown only by its
\* ready-to-show handler, which destroys an existing splash window before it
\* shows the main window: an open splash window and a visible main window
\* never exist together.
C11_SplashGoneBeforeMainShown ==
  /\ [](~(splashWindow = "open" /\ mainWindow = "visible"))
  /\ [][(mainWindow = "undefined" /\ mainWindow' # "undefined") => mainWindow' = "hidden"]_vars
  /\ [][(mainWindow = "hidden" /\ mainWindow' = "visible")
          => /\ elEvt'.op \in {"readyToShow", "readyToShowEnd"}
             /\ splashWindow' # "open"]_vars

\* C12: every request to open a window is answered with deny, and
\* shell.openExternal is called only for the URLs that start with https: or
\* http:; a URL of another scheme is not handed to the system.
C12_DenyAndOnlyHttpExternal ==
  elEvt.op = "windowOpen" =>
    /\ elEvt.action = "deny"
    /\ elEvt.external <=> elEvt.arg \in {<<"h", "t", "t", "p", "s", ":", "/", "/", "a">>,
                                        <<"h", "t", "t", "p", ":", "/", "/", "a">>}

C12_Witness ==
  /\ elEvt.op = "windowOpen"
  /\ elEvt.arg = <<"h", "t", "t", "p", "s", ":", "/", "/", "a">>
  /\ elEvt.external /\ elEvt.action = "deny"

\* C13: an instance without the lock quits and never has a window; in the
\* instance with the lock a second-instance event restores a minimized main
\* window, focuses it and sends the first argument that starts with
\* dcel-inventory:// as deep link, and does nothing when no main window exists.
C13_SingleInstance ==
  /\ ~gotTheLock =>
       (appState = "quit" /\ mainWindow = "undefined" /\ splashWindow = "undefined")
  /\ elEvt.op = "secondInstance" =>
       IF elEvt.hadWindow
       THEN /\ ~elEvt.threw
            /\ elEvt.wasMinimized => (elEvt.restored /\ mainWindow = "visible")
            /\ elEvt.focused
            /\ elEvt.arg = (IF Len(elEvt.cmd) = 1 THEN <<>>
                            ELSE IF Len(elEvt.cmd) = 2 THEN elEvt.cmd[2]
                            ELSE elEvt.cmd[3])
       ELSE /\ ~elEvt.threw
            /\ ~elEvt.restored /\ ~elEvt.focused
            /\ elEvt.arg = NoLink

(***************************************************************************)
(*        SECURITY PANEL (src/components/profile/SecurityPanel.tsx)        *)
(***************************************************************************)
\* The texts typed into a password field: nothing, blanks, a text shorter
\* than eight characters and two texts of nine.
FieldTexts ==
  {<<>>,
   <<" ", " ">>,
   <<"a", "b", "c", "1", "2">>,
   <<"p", "a", "s", "s", "w", "o", "r", "d", "1">>,
   <<"p", "a", "s", "s", "w", "o", "r", "d", "2">>}
Fields == {"currentPassword", "newPassword", "confirmPassword"}

EmptyForm == [f \in Fields |-> <<>>]

RECURSIVE Trim(_)
\* String.prototype.trim
Trim(text) ==
  IF text # <<>> /\ Head(text) = " " THEN Trim(Tail(text))
  ELSE IF text # <<>> /\ text[Len(text)] = " "
  THEN Trim(SubSeq(text, 1, Len(text) - 1))
  ELSE text

\* The checks at the head of handlePasswordChange (30-48): the message of
\* the first check that fails, "" when all pass.
ValidationError(form) ==
  IF Trim(form["currentPassword"]) = <<>> THEN "Current password is required"
  ELSE IF Trim(form["newPassword"]) = <<>> THEN "New password is required"
  ELSE IF form["newPassword"] # form["confirmPassword"] THEN "Passwords do not match"
  ELSE IF Len(form["newPassword"]) < 8 THEN "Password must be at least 8 characters"
  ELSE ""

\* useState (20-27); onPasswordChange is an optional prop (12, 17)
InitSecurity ==
  /\ hasOnPasswordChange \in BOOLEAN
  /\ isPasswordDialogOpen = FALSE
  /\ isMFAEnabled = FALSE
  /\ isSaving = FALSE
  /\ passwordForm = EmptyForm
  /\ toastShown = ""
  /\ pendingCall = "none"
  /\ secEvt = "none"

\* The Change button (114-121)
OpenDialog ==
  /\ ~isSaving
  /\ ~isPasswordDialogOpen
  /\ isPasswordDialogOpen' = TRUE
  /\ secEvt' = "open"
  /\ UNCHANGED <<hasOnPasswordChange, isMFAEnabled, isSaving, passwordForm, toastShown,
                 pendingCall>>
  /\ UNCHANGED <<pinVars, aiVars, splashVars, electronVars>>

\* onChange of one of the three inputs (179, 192, 208), disabled while saving
SetField(field, text) ==
  /\ isPasswordDialogOpen
  /\ ~isSaving
  /\ passwordForm[field] # text
  /\ passwordForm' = [passwordForm EXCEPT ![field] = text]
  /\ secEvt' = "edit"
  /\ UNCHANGED <<hasOnPasswordChange, isPasswordDialogOpen, isMFAEnabled, isSaving,
                 toastShown, pendingCall>>
  /\ UNCHANGED <<pinVars, aiVars, splashVars, electronVars>>

\* The Cancel button (216-222), disabled while saving
Cancel ==
  /\ isPasswordDialogOpen
  /\ ~isSaving
  /\ isPasswordDialogOpen' = FALSE
  /\ secEvt' = "cancel"
  /\ UNCHANGED <<hasOnPasswordChange, isMFAEnabled, isSaving, passwordForm, toastShown,
                 pendingCall>>
  /\ UNCHANGED <<pinVars, aiVars, splashVars, electronVars>>

\* onOpenChange of the dialog (159): Escape or a click outside closes the
\* dialog, while saving too.
Dismiss ==
  /\ isPasswordDialogOpen
  /\ isPasswordDialogOpen' = FALSE
  /\ secEvt' = "dismiss"
  /\ UNCHANGED <<hasOnPasswordChange, isMFAEnabled, isSaving, passwordForm, toastShown,
                 pendingCall>>
  /\ UNCHANGED <<pinVars, aiVars, splashVars, electronVars>>

\* A catch that also clears the form and closes the dialog.
AfterSettle_AlwaysCleared(resolved, form, open) == [form |-> EmptyForm, open |-> FALSE]

\* The form and the dialog after the await: setPasswordForm and
\* setIsPasswordDialogOpen(false) (63-64) run after a call that fulfils; the
\* catch (65-66) leaves both.
AfterSettle(resolved, form, open) ==
  IF resolved THEN [form |-> EmptyForm, open |-> FALSE]
  ELSE [form |-> form, open |-> open]

\* The Change Password button (223-229) and handlePasswordChange up to its
\* await (29-61)
Submit ==
  /\ isPasswordDialogOpen
  /\ ~isSaving
  /\ \A f \in Fields : passwordForm[f] # <<>>
  /\ IF ValidationError(passwordForm) # ""
     THEN /\ toastShown' = ValidationError(passwordForm)
          /\ secEvt' = "invalid"
          /\ UNCHANGED <<isSaving, pendingCall>>
     ELSE /\ isSaving' = TRUE
          /\ pendingCall' = IF hasOnPasswordChange THEN "onPasswordChange"
                            ELSE "updateUser"
          /\ secEvt' = "submitted"
          /\ UNCHANGED toastShown
  /\ UNCHANGED <<hasOnPasswordChange, isPasswordDialogOpen, isMFAEnabled, passwordForm>>
  /\ UNCHANGED <<pinVars, aiVars, splashVars, electronVars>>

\* handlePasswordChange after its await (62-69): the call fulfilled
\* (resolved) or rejected.
Settle(resolved) ==
  /\ pendingCall \in {"onPasswordChange", "updateUser"}
  /\ pendingCall' = "none"
  /\ toastShown' = IF resolved THEN "Password changed successfully"
                   ELSE "Failed to change password"
  /\ passwordForm' = AfterSettle(resolved, passwordForm, isPasswordDialogOpen).form
  /\ isPasswordDialogOpen' = AfterSettle(resolved, passwordForm, isPasswordDialogOpen).open
  /\ isSaving' = FALSE
  /\ secEvt' = IF resolved THEN "resolved" ELSE "rejected"
  /\ UNCHANGED <<hasOnPasswordChange, isMFAEnabled>>
  /\ UNCHANGED <<pinVars, aiVars, splashVars, electronVars>>

\* The switch (136-140), disabled while saving, and handleMFAToggle up to
\* its await (72-75): onCheckedChange passes the other value of checked.
MFAToggle ==
  /\ ~isSaving
  /\ isSaving' = TRUE
  /\ pendingCall' = IF ~isMFAEnabled THEN "mfaEnable" ELSE "mfaDisable"
  /\ secEvt' = "mfaToggle"
  /\ UNCHANGED <<hasOnPasswordChange, isPasswordDialogOpen, isMFAEnabled, passwordForm,
                 toastShown>>
  /\ UNCHANGED <<pinVars, aiVars, splashVars, electronVars>>

\* handleMFAToggle after its await (76-82)
MFASettle(resolved) ==
  /\ pendingCall \in {"mfaEnable", "mfaDisable"}
  /\ pendingCall' = "none"
  /\ isMFAEnabled' = IF resolved THEN (pendingCall = "mfaEnable") ELSE isMFAEnabled
  /\ toastShown' = IF ~resolved THEN "Failed to update MFA settings"
                   ELSE IF pendingCall = "mfaEnable"
                   THEN "Multi-Factor Authentication enabled"
                   ELSE "Multi-Factor Authentication disabled"
  /\ isSaving' = FALSE
  /\ secEvt' = IF resolved THEN "mfaResolved" ELSE "mfaRejected"
  /\ UNCHANGED <<hasOnPasswordChange, isPasswordDialogOpen, passwordForm>>
  /\ UNCHANGED <<pinVars, aiVars, splashVars, electronVars>>

NextSecurity ==
  \/ OpenDialog
  \/ \E f \in Fields, t \in FieldTexts : SetField(f, t)
  \/ Cancel
  \/ Dismiss
  \/ Submit
  \/ \E r \in BOOLEAN : Settle(r)
  \/ MFAToggle
  \/ \E r \in BOOLEAN : MFASettle(r)

(***************************************************************************)
(* Claims about the security panel                                         *)
(***************************************************************************)
\* C14: when the call of handlePasswordChange rejects, the toast "Failed
\* to change password" is shown, the three fields and the dialog are left as
\* they are and isSaving is false again; the fields are cleared and the
\* dialog is closed by handlePasswordChange only when the call fulfils.
C14_CatchAndToast ==
  [][/\ pendingCall # "none" /\ secEvt' = "rejected" =>
          /\ toastShown' = "Failed to change password"
          /\ passwordForm' = passwordForm
          /\ isPasswordDialogOpen' = isPasswordDialogOpen
          /\ ~isSaving'
     /\ pendingCall # "none" /\ secEvt' = "resolved" =>
          /\ passwordForm' = [f \in Fields |-> <<>>]
          /\ ~isPasswordDialogOpen'
          /\ ~isSaving'
     /\ secEvt' \in {"invalid", "submitted"} =>
          /\ passwordForm' = passwordForm
          /\ isPasswordDialogOpen' = isPasswordDialogOpen]_vars

C14_Witness ==
  /\ secEvt = "rejected"
  /\ toastShown = "Failed to change password"
  /\ isPasswordDialogOpen /\ ~isSaving
  /\ Len(passwordForm["newPassword"]) >= 8
  /\ passwordForm["currentPassword"] # passwordForm["newPassword"]

(***************************************************************************)
(*                           SPECIFICATIONS                                *)
(***************************************************************************)
\* One initial state of each part, for the specifications of the other parts.
IdlePin ==
  /\ InitPin
  /\ ~isAuthenticated /\ ~sessionUnlocked
  /\ pinCache = [u \in Users |-> NoHash]
IdleAI ==
  /\ InitAI
  /\ userRole = "staff" /\ assets = <<>>
IdleSplash ==
  /\ InitSplash
  /\ variant = "combined" /\ platform = "web"
  /\ isAssetsLoading /\ isWaybillsLoading /\ isAppDataLoading
  /\ ~isDashboardDataLoaded
IdleElectron ==
  /\ InitElectron
  /\ processPlatform = "win32" /\ gotTheLock /\ argvDeepLink = NoLink
IdleSecurity ==
  /\ InitSecurity
  /\ ~hasOnPasswordChange

\* The PIN lock
StartPin == InitPin /\ IdleAI /\ IdleSplash /\ IdleElectron /\ IdleSecurity
SpecPin == StartPin /\ [][NextPin]_vars

\* The AI assistant
StartAI == InitAI /\ IdlePin /\ IdleSplash /\ IdleElectron /\ IdleSecurity
SpecAI == StartAI /\ [][NextAI]_vars

\* The splash screen controller
StartSplash == InitSplash /\ IdlePin /\ IdleAI /\ IdleElectron /\ IdleSecurity
SpecSplash == StartSplash /\ [][NextSplash]_vars

\* The electron main process
StartElectron == InitElectron /\ IdlePin /\ IdleAI /\ IdleSplash /\ IdleSecurity
SpecElectron == StartElectron /\ [][NextElectron]_vars

\* The security panel
StartSecurity == InitSecurity /\ IdlePin /\ IdleAI /\ IdleSplash /\ IdleElectron
SpecSecurity == StartSecurity /\ [][NextSecurity]_vars

====
